---------------------------- MODULE Spec2Model ----------------------------
(***************************************************************************)
(* Model of the ICH detection front end: the detection page                *)
(* (frontend/js/detection.js), the result page                             *)
(* (frontend/js/results-multimodel.js) and the session-storage slot that   *)
(* hands the prediction payload from the first to the second.              *)
(*                                                                         *)
(* Conventions.  A JavaScript string is a TLA+ string, and its character   *)
(* at index i (from 1) is SubSeq(s, i, i); the characters of the model are *)
(* those a TLA+ string can hold.  String concatenation is \o, and          *)
(* String.prototype.includes / endsWith are the contiguous-substring and   *)
(* suffix tests.  A JSON text is a sequence of tokens; JSON.stringify and  *)
(* JSON.parse are a printer and a recursive-descent parser over tokens.    *)
(* A Number is an IEEE 754 double, its significand a natural number        *)
(* written in limbs of base 1000.                                          *)
(***************************************************************************)
EXTENDS Integers, Sequences, FiniteSets, Bags, TLC

(***************************************************************************)
(* Bounds of the model.                                                    *)
(***************************************************************************)
\* POST /predict requests issued over one run of the model.
MaxRequests == 2
\* Loads of the result page in a row that find the stored payload.
MaxLoads == 2
\* Labels in the confidences mapping of a rendered source.
MaxLabels == 3
\* Page loads, toggle clicks and system colour-scheme changes over one run
\* of the theme manager.
MaxThemeEvents == 4

(***************************************************************************)
(* Strings.                                                                *)
(***************************************************************************)
\* The character at index i (from 1) of a string.
CharAt(s, i) == SubSeq(s, i, i)
\* s from index i on.
From(s, i) == SubSeq(s, i, Len(s))

UpperChars == "ABCDEFGHIJKLMNOPQRSTUVWXYZÀÁÂÃÄÅÆÇÈÉÊËÌÍÎÏÐÑÒÓÔÕÖØÙÚÛÜÝÞ"
LowerChars == "abcdefghijklmnopqrstuvwxyzàáâãäåæçèéêëìíîïðñòóôõöøùúûüýþ"

\* The lower-case letter of each upper-case letter.
LowerCaseOf ==
    [c \in { CharAt(UpperChars, i) : i \in 1..Len(UpperChars) } |->
        CharAt(LowerChars, CHOOSE i \in 1..Len(UpperChars) : CharAt(UpperChars, i) = c)]

\* One character of String.prototype.toLowerCase.
LowerChar(c) == IF c \in DOMAIN LowerCaseOf THEN LowerCaseOf[c] ELSE c

RECURSIVE ToLowerCase(_)
\* String.prototype.toLowerCase, character by character (by halves).
ToLowerCase(s) ==
    IF Len(s) = 0 THEN s
    ELSE IF Len(s) = 1 THEN LowerChar(s)
    ELSE ToLowerCase(SubSeq(s, 1, Len(s) \div 2)) \o ToLowerCase(From(s, Len(s) \div 2 + 1))

\* String.prototype.endsWith.
EndsWith(s, suffix) ==
    /\ Len(suffix) <= Len(s)
    /\ SubSeq(s, Len(s) - Len(suffix) + 1, Len(s)) = suffix

\* String.prototype.includes.
Includes(s, needle) ==
    \E i \in 0..(Len(s) - Len(needle)) :
        SubSeq(s, i + 1, i + Len(needle)) = needle

(***************************************************************************)
(* JSON values.  An object is its entries in property order (keys unique); *)
(* JUndef is JavaScript's undefined, which no JSON text denotes.           *)
(***************************************************************************)
JNull == [k |-> "null"]
JUndef == [k |-> "undef"]
JNum(n) == [k |-> "num", n |-> n]
JStr(s) == [k |-> "str", s |-> s]
JArr(a) == [k |-> "arr", a |-> a]
JObj(e) == [k |-> "obj", e |-> e]
Entry(key, val) == [key |-> key, val |-> val]

\* The tokens of a text: punctuation, string literals, number literals,
\* null, and a run of characters that is no JSON token.
TPunct(p) == [t |-> "punct", s |-> p, n |-> 0]
TStr(s) == [t |-> "str", s |-> s, n |-> 0]
TNum(n) == [t |-> "num", s |-> "", n |-> n]
TNullLit == [t |-> "null", s |-> "", n |-> 0]
TText(s) == [t |-> "text", s |-> s, n |-> 0]

Digits == <<"0", "1", "2", "3", "4", "5", "6", "7", "8", "9">>
IsDigit(c) == c \in { Digits[i] : i \in 1..Len(Digits) }
DigitValue(c) == (CHOOSE i \in 1..Len(Digits) : Digits[i] = c) - 1

\* A decimal numeral without sign, fraction or leading zero.
IsNumeral(s) ==
    /\ Len(s) >= 1
    /\ \A i \in 1..Len(s) : IsDigit(CharAt(s, i))
    /\ Len(s) = 1 \/ CharAt(s, 1) /= "0"

\* a < b for two numerals: the shorter is less, equal lengths compare digit
\* by digit from the left.
NumeralLess(a, b) ==
    \/ Len(a) < Len(b)
    \/ /\ Len(a) = Len(b)
       /\ \E i \in 1..Len(a) :
             /\ DigitValue(CharAt(a, i)) < DigitValue(CharAt(b, i))
             /\ SubSeq(a, 1, i - 1) = SubSeq(b, 1, i - 1)

\* The largest array index, 2^32 - 2.
MaxArrayIndex == "4294967294"

\* A property key that is an array index: own property keys list these
\* first, in ascending numeric order, before the other keys.
IsArrayIndex(key) == IsNumeral(key) /\ ~NumeralLess(MaxArrayIndex, key)

RECURSIVE Numeral(_)
\* String(n) for a natural number n.
Numeral(n) ==
    IF n < 10 THEN Digits[n + 1]
    ELSE Numeral(n \div 10) \o Digits[(n % 10) + 1]

\* String(n) for an integer n.
NumberText(n) == IF n < 0 THEN "-" \o Numeral(0 - n) ELSE Numeral(n)

GetResult(thrown, v) == [thrown |-> thrown, v |-> v]

\* v[key] for a key the program reads (none of them names a property that
\* a prototype supplies): a TypeError for null and undefined; the own
\* property of an object; the length and the elements of an array; the
\* length and the characters of a string; undefined otherwise.
Get(v, key) ==
    CASE v.k \in {"null", "undef"} -> GetResult(TRUE, JUndef)
      [] v.k = "obj" ->
           IF \E i \in 1..Len(v.e) : v.e[i].key = key
           THEN GetResult(FALSE, v.e[CHOOSE i \in 1..Len(v.e) : v.e[i].key = key].val)
           ELSE GetResult(FALSE, JUndef)
      [] v.k = "arr" ->
           IF key = "length" THEN GetResult(FALSE, JNum(Len(v.a)))
           ELSE IF \E i \in 1..Len(v.a) : Numeral(i - 1) = key
           THEN GetResult(FALSE, v.a[CHOOSE i \in 1..Len(v.a) : Numeral(i - 1) = key])
           ELSE GetResult(FALSE, JUndef)
      [] v.k = "str" ->
           IF key = "length" THEN GetResult(FALSE, JNum(Len(v.s)))
           ELSE IF \E i \in 1..Len(v.s) : Numeral(i - 1) = key
           THEN GetResult(FALSE,
                          JStr(CharAt(v.s, CHOOSE i \in 1..Len(v.s) : Numeral(i - 1) = key)))
           ELSE GetResult(FALSE, JUndef)
      [] OTHER -> GetResult(FALSE, JUndef)

\* Property assignment as JSON.parse does it for a key of the text: a
\* repeated key keeps its place and takes the later value; a new array index
\* goes after the smaller indices at the front; any other new key is
\* appended.
PutEntry(es, key, val) ==
    IF \E i \in 1..Len(es) : es[i].key = key
    THEN [i \in 1..Len(es) |-> IF es[i].key = key THEN Entry(key, val) ELSE es[i]]
    ELSE IF IsArrayIndex(key)
    THEN LET n == Cardinality({ i \in 1..Len(es) :
                                  /\ IsArrayIndex(es[i].key)
                                  /\ NumeralLess(es[i].key, key) })
         IN SubSeq(es, 1, n) \o <<Entry(key, val)>> \o SubSeq(es, n + 1, Len(es))
    ELSE Append(es, Entry(key, val))

RECURSIVE Stringify(_)
RECURSIVE StringifyElems(_, _)
RECURSIVE StringifyEntries(_, _)

\* JSON.stringify on a value that came out of JSON.parse.
Stringify(v) ==
    CASE v.k = "null" -> <<TNullLit>>
      [] v.k = "num" -> <<TNum(v.n)>>
      [] v.k = "str" -> <<TStr(v.s)>>
      [] v.k = "arr" -> <<TPunct("[")>> \o StringifyElems(v.a, 1) \o <<TPunct("]")>>
      [] v.k = "obj" -> <<TPunct("{")>> \o StringifyEntries(v.e, 1) \o <<TPunct("}")>>

StringifyElems(a, i) ==
    IF i > Len(a) THEN <<>>
    ELSE (IF i > 1 THEN <<TPunct(",")>> ELSE <<>>)
         \o Stringify(a[i]) \o StringifyElems(a, i + 1)

StringifyEntries(e, i) ==
    IF i > Len(e) THEN <<>>
    ELSE (IF i > 1 THEN <<TPunct(",")>> ELSE <<>>)
         \o <<TStr(e[i].key), TPunct(":")>> \o Stringify(e[i].val)
         \o StringifyEntries(e, i + 1)

\* Parser results: the value read and the index of the next token, or failure.
ParseFail == [ok |-> FALSE, v |-> JNull, i |-> 0]
ParseOk(v, i) == [ok |-> TRUE, v |-> v, i |-> i]
IsPunct(toks, i, p) == i <= Len(toks) /\ toks[i].t = "punct" /\ toks[i].s = p

RECURSIVE ParseValue(_, _)
RECURSIVE ParseElems(_, _, _)
RECURSIVE ParseEntries(_, _, _)

\* value := null | number | string | '[' elements ']' | '{' entries '}'
ParseValue(toks, i) ==
    IF i > Len(toks) THEN ParseFail
    ELSE CASE toks[i].t = "null" -> ParseOk(JNull, i + 1)
           [] toks[i].t = "num" -> ParseOk(JNum(toks[i].n), i + 1)
           [] toks[i].t = "str" -> ParseOk(JStr(toks[i].s), i + 1)
           [] IsPunct(toks, i, "[") ->
                IF IsPunct(toks, i + 1, "]") THEN ParseOk(JArr(<<>>), i + 2)
                ELSE ParseElems(toks, i + 1, <<>>)
           [] IsPunct(toks, i, "{") ->
                IF IsPunct(toks, i + 1, "}") THEN ParseOk(JObj(<<>>), i + 2)
                ELSE ParseEntries(toks, i + 1, <<>>)
           [] OTHER -> ParseFail

\* elements := value (',' value)* ']'
ParseElems(toks, i, acc) ==
    LET r == ParseValue(toks, i) IN
    IF ~r.ok THEN ParseFail
    ELSE IF IsPunct(toks, r.i, "]") THEN ParseOk(JArr(Append(acc, r.v)), r.i + 1)
    ELSE IF IsPunct(toks, r.i, ",") THEN ParseElems(toks, r.i + 1, Append(acc, r.v))
    ELSE ParseFail

\* entries := string ':' value (',' string ':' value)* '}'
ParseEntries(toks, i, acc) ==
    IF ~(i + 1 <= Len(toks) /\ toks[i].t = "str" /\ IsPunct(toks, i + 1, ":"))
    THEN ParseFail
    ELSE LET r == ParseValue(toks, i + 2) IN
         IF ~r.ok THEN ParseFail
         ELSE IF IsPunct(toks, r.i, "}")
              THEN ParseOk(JObj(PutEntry(acc, toks[i].s, r.v)), r.i + 1)
         ELSE IF IsPunct(toks, r.i, ",")
              THEN ParseEntries(toks, r.i + 1, PutEntry(acc, toks[i].s, r.v))
         ELSE ParseFail

\* JSON.parse: the whole text must be one value; [ok |-> FALSE] is the
\* SyntaxError.
JsonParse(toks) ==
    LET r == ParseValue(toks, 1) IN
    IF r.ok /\ r.i = Len(toks) + 1 THEN [ok |-> TRUE, v |-> r.v]
    ELSE [ok |-> FALSE, v |-> JNull]

(***************************************************************************)
(* detection.js: constants, files and messages.                            *)
(***************************************************************************)
API_URL == "http://localhost:8000"
maxSize == 50 * 1024 * 1024
DcmExtension == ".dcm"

\* selectedFile = null
NoFile == [name |-> "", size |-> -1]
File(name, size) == [name |-> name, size |-> size]

\* Candidate files the user can pick or drop: names that do and do not end
\* in .dcm (in either case), sizes around the ceiling.
NameLower == "a.dcm"
NameUpper == "B.DCM"
NamePng == "a.png"
Files ==
    { File(NameLower, 1024), File(NameUpper, maxSize),
      File(NameLower, maxSize + 1), File(NamePng, 1024),
      File(NamePng, maxSize + 1) }

\* No alert shown.
NoAlert == ""
MsgNotDicom == "Please select a DICOM (.dcm) file"
MsgTooLarge == "File size exceeds 50 MB limit"
MsgNoFile == "Please select a DICOM file"
MsgPrefix == "An error occurred during detection. "
MsgBackend == "Please ensure the backend server is running on " \o API_URL
MsgPredictionFailed == "Prediction failed"
FailedToFetch == "Failed to fetch"
\* The text of #file-name before any selection (set by the page's markup).
InitialText == ""
SelectedText(name) == "Selected: " \o name

(***************************************************************************)
(* validateAndDisplayFile.                                                 *)
(***************************************************************************)
\* file.name.toLowerCase().endsWith(".dcm")
IsDicomName(name) == EndsWith(ToLowerCase(name), DcmExtension)

\* Mutant: the ceiling compared with >= instead of >.
ExceedsMaxSizeOffByOne(size) == size >= maxSize

\* file.size > maxSize
ExceedsMaxSize(size) == size > maxSize

UiState(sel, disp, dis, al) ==
    [selectedFile |-> sel, fileNameDisplay |-> disp, runDisabled |-> dis, alert |-> al]

\* Mutant: the return after the extension alert is missing, so the size check
\* and the store run for a file of any name.
ValidateNoReturnAfterAlert(file, sel, disp, dis) ==
    IF ExceedsMaxSize(file.size) THEN UiState(sel, disp, dis, MsgTooLarge)
    ELSE UiState(file, SelectedText(file.name), FALSE,
                 IF IsDicomName(file.name) THEN NoAlert ELSE MsgNotDicom)

\* Mutant: selectedFile is assigned on entry, before the two checks.
ValidateStoresBeforeChecks(file, sel, disp, dis) ==
    IF ~IsDicomName(file.name) THEN UiState(file, disp, dis, MsgNotDicom)
    ELSE IF ExceedsMaxSize(file.size) THEN UiState(file, disp, dis, MsgTooLarge)
    ELSE UiState(file, SelectedText(file.name), FALSE, NoAlert)

\* Mutant: a rejected file clears the selection and disables the button.
ValidateClearsOnReject(file, sel, disp, dis) ==
    IF ~IsDicomName(file.name) THEN UiState(NoFile, InitialText, TRUE, MsgNotDicom)
    ELSE IF ExceedsMaxSize(file.size) THEN UiState(NoFile, InitialText, TRUE, MsgTooLarge)
    ELSE UiState(file, SelectedText(file.name), FALSE, NoAlert)

\* validateAndDisplayFile(file) on the cell, the display and the button.
ValidateAndDisplayFile(file, sel, disp, dis) ==
    IF ~IsDicomName(file.name) THEN UiState(sel, disp, dis, MsgNotDicom)
    ELSE IF ExceedsMaxSize(file.size) THEN UiState(sel, disp, dis, MsgTooLarge)
    ELSE UiState(file, SelectedText(file.name), FALSE, NoAlert)

(***************************************************************************)
(* runDetection: the backend's answers and the try / catch blocks.         *)
(***************************************************************************)
\* The image locators of the sample payloads.
ImgO == JStr("/img/o.png")
ImgP == JStr("/img/p.png")

SourceResult(detected, confidences) ==
    JObj(<<Entry("detected", JArr(detected)), Entry("confidences", JObj(confidences))>>)

\* The payload of the end-to-end example: one source, one label.
PayloadOne ==
    JObj(<<Entry("predictions",
                 JObj(<<Entry("model_a",
                              SourceResult(<<JStr("Epidural")>>,
                                           <<Entry("Epidural", JNum(81))>>))>>)),
           Entry("original_image", ImgO),
           Entry("processed_image", ImgP)>>)

\* A payload with the ensemble first and two models, ties and a score of 50.
PayloadMulti ==
    JObj(<<Entry("original_image", ImgO),
           Entry("processed_image", ImgP),
           Entry("predictions",
                 JObj(<<Entry("ensemble",
                              SourceResult(<<>>, <<Entry("Subdural", JNum(50)),
                                                   Entry("Epidural", JNum(72))>>)),
                        Entry("model_b",
                              SourceResult(<<JStr("Subdural")>>,
                                           <<Entry("Epidural", JNum(40)),
                                             Entry("Subdural", JNum(40)),
                                             Entry("Subarachnoid", JNum(91))>>)),
                        Entry("model_a",
                              SourceResult(<<>>, <<Entry("Epidural", JNum(72))>>))>>))>>)

WellFormedPayloads == { PayloadOne, PayloadMulti }

Detail(x) == JObj(<<Entry("detail", x)>>)
\* An object with an own property toString that is no function.
NoString == JObj(<<Entry("toString", JNum(1))>>)

\* Response bodies, as JSON texts.
BodyNotJson == <<TText("<html>")>>
BodyFetchText == <<TText("Failed to fetch")>>
BodyInvalid == Stringify(Detail(JStr("Invalid DICOM file")))
BodyFetchDetail == Stringify(Detail(JStr("Model: Failed to fetch weights")))
BodyEmptyDetail == Stringify(Detail(JStr("")))
BodyNoDetail == Stringify(JObj(<<Entry("error", JStr("boom"))>>))
BodyNull == Stringify(JNull)
BodyObjectDetail == Stringify(Detail(NoString))
\* Bodies of success responses and of non-success responses.
OkBodies ==
    { Stringify(p) : p \in WellFormedPayloads } \cup { BodyInvalid, BodyNotJson }
ErrorBodies ==
    { BodyInvalid, BodyFetchDetail, BodyEmptyDetail, BodyNoDetail, BodyNull, BodyNotJson,
      BodyFetchText, BodyObjectDetail }

\* error.message of the TypeError fetch() rejects with: set by the browser.
FetchErrorMessages ==
    { FailedToFetch, "NetworkError when attempting to fetch resource." }
RECURSIVE BodyText(_)
\* The characters of a body, token by token.
BodyText(toks) ==
    IF toks = <<>> THEN ""
    ELSE (CASE toks[1].t = "str" -> "\"" \o toks[1].s \o "\""
            [] toks[1].t = "num" -> NumberText(toks[1].n)
            [] toks[1].t = "null" -> "null"
            [] OTHER -> toks[1].s)
         \o BodyText(Tail(toks))

\* The words of the engine in the message of a SyntaxError: they differ
\* from engine to engine and with the place of the error, and none of them
\* is read by the program.
SyntaxErrorWording == "(the engine's words for a JSON syntax error)"

\* error.message of the SyntaxError of response.json() for a body: the
\* engine's words, alone or (V8) with the text of the body quoted in them.
SyntaxErrorMessages(body) ==
    { SyntaxErrorWording, SyntaxErrorWording \o BodyText(body) }
RECURSIVE Unconvertible(_)
\* The values whose conversion to a primitive throws a TypeError.  An
\* object is converted by its toString and valueOf: an own property
\* toString of a parsed object is no function, and the valueOf it inherits
\* returns the object itself, so neither gives a primitive.  An array is
\* converted by join, which converts every element that is neither null
\* nor undefined.
Unconvertible(v) ==
    CASE v.k = "obj" -> \E i \in 1..Len(v.e) : v.e[i].key = "toString"
      [] v.k = "arr" -> \E i \in 1..Len(v.a) : Unconvertible(v.a[i])
      [] OTHER -> FALSE

\* error.message of the TypeError of reading a property of null.
TypeErrorMessages == { "Cannot read properties of null (reading 'detail')" }
\* error.message of the TypeError of converting such a value to a string.
ConversionErrorMessages == { "Cannot convert object to primitive value" }

\* The engine's message for the failure, if any, that a body leads to.
EngineMessages(ok, body) ==
    LET p == JsonParse(body) IN
    IF ~p.ok THEN SyntaxErrorMessages(body)
    ELSE IF ~ok /\ p.v = JNull THEN TypeErrorMessages
    ELSE IF ~ok /\ Unconvertible(Get(p.v, "detail").v) THEN ConversionErrorMessages
    ELSE { "" }

\* What fetch() can settle with: a rejection, or a response with a status
\* class and a body.  msg is the message of the error the engine raises.
NoResponse == [kind |-> "none", ok |-> FALSE, body |-> <<>>, msg |-> ""]
Rejections ==
    { [kind |-> "reject", ok |-> FALSE, body |-> <<>>, msg |-> m] : m \in FetchErrorMessages }
HttpResponses ==
    UNION { { [kind |-> "http", ok |-> TRUE, body |-> b, msg |-> m] :
                m \in EngineMessages(TRUE, b) } : b \in OkBodies }
    \cup UNION { { [kind |-> "http", ok |-> FALSE, body |-> b, msg |-> m] :
                     m \in EngineMessages(FALSE, b) } : b \in ErrorBodies }
Responses == Rejections \cup HttpResponses

\* JavaScript truthiness of a parsed value.
Truthy(v) ==
    CASE v.k = "undef" -> FALSE
      [] v.k = "null" -> FALSE
      [] v.k = "num" -> v.n /= 0
      [] v.k = "str" -> v.s /= ""
      [] OTHER -> TRUE

RECURSIVE StringOf(_)
RECURSIVE JoinElems(_, _)
\* The string of a value that converts: an array is its elements' strings
\* joined by commas, an object the string of Object.prototype.toString.
StringOf(v) ==
    CASE v.k = "undef" -> "undefined"
      [] v.k = "null" -> "null"
      [] v.k = "num" -> NumberText(v.n)
      [] v.k = "str" -> v.s
      [] v.k = "arr" -> JoinElems(v.a, 1)
      [] OTHER -> "[object Object]"

\* Array.prototype.join: null and undefined elements give the empty string.
JoinElems(a, i) ==
    IF i > Len(a) THEN ""
    ELSE (IF i > 1 THEN "," ELSE "")
         \o (IF a[i].k \in {"null", "undef"} THEN "" ELSE StringOf(a[i]))
         \o JoinElems(a, i + 1)

\* String(v), as template literals and new Error(v) apply it: the string,
\* or thrown.
ToStr(v) ==
    IF Unconvertible(v) THEN [thrown |-> TRUE, s |-> ""]
    ELSE [thrown |-> FALSE, s |-> StringOf(v)]

(***************************************************************************)
(* Natural numbers of any size: limbs in base 1000, the most significant   *)
(* first, no leading zero limb; zero is the empty sequence.                *)
(***************************************************************************)
Base == 1000
Min(a, b) == IF a <= b THEN a ELSE b
Max(a, b) == IF a >= b THEN a ELSE b

\* Leading zero limbs removed.
Trim(a) ==
    SubSeq(a, Cardinality({ i \in 1..Len(a) : \A j \in 1..i : a[j] = 0 }) + 1, Len(a))

\* The limb of weight Base^p.
Limb(a, p) == IF p < Len(a) THEN a[Len(a) - p] ELSE 0

\* The sum of f[i] over the domain of a function to the naturals.
Sum(f) == BagCardinality([i \in { j \in DOMAIN f : f[j] > 0 } |-> f[i]])

\* a * Base^k
Shift(a, k) == IF a = <<>> THEN a ELSE a \o [i \in 1..k |-> 0]

\* a < b and a <= b
Less(a, b) ==
    \/ Len(a) < Len(b)
    \/ /\ Len(a) = Len(b)
       /\ \E i \in 1..Len(a) : a[i] < b[i] /\ \A j \in 1..(i - 1) : a[j] = b[j]
Leq(a, b) == a = b \/ Less(a, b)

\* The carry into the limb of weight Base^p of a + b: some lower limb
\* overflows and every limb between passes the carry on.
Carry(a, b, p) ==
    \E j \in 0..(p - 1) :
        /\ Limb(a, j) + Limb(b, j) >= Base
        /\ \A m \in (j + 1)..(p - 1) : Limb(a, m) + Limb(b, m) = Base - 1

\* a + b
Add(a, b) ==
    IF a = <<>> THEN b
    ELSE IF b = <<>> THEN a
    ELSE Trim([i \in 1..(Max(Len(a), Len(b)) + 1) |->
                 LET p == Max(Len(a), Len(b)) + 1 - i IN
                 (Limb(a, p) + Limb(b, p) + (IF Carry(a, b, p) THEN 1 ELSE 0)) % Base])

\* The borrow from the limb of weight Base^p of a - b.
Borrow(a, b, p) ==
    \E j \in 0..(p - 1) :
        /\ Limb(a, j) < Limb(b, j)
        /\ \A m \in (j + 1)..(p - 1) : Limb(a, m) = Limb(b, m)

\* a - b, for a >= b
Sub(a, b) ==
    IF b = <<>> THEN a
    ELSE Trim([i \in 1..Len(a) |->
                 LET p == Len(a) - i IN
                 (Limb(a, p) - Limb(b, p) - (IF Borrow(a, b, p) THEN 1 ELSE 0) + Base) % Base])

\* The sum of the limb products of weight Base^k of a * b.
Convolve(a, b, k) ==
    Sum([i \in Max(0, k - Len(b) + 1)..Min(k, Len(a) - 1) |-> Limb(a, i) * Limb(b, k - i)])

\* The sums of limb products of a * b, the most significant first.
Products(a, b) ==
    SubSeq([i \in 1..(Len(a) + Len(b)) |-> Convolve(a, b, Len(a) + Len(b) - i)],
           1, Len(a) + Len(b))

\* The number whose limbs are the sums c, each below Base^3.
Carried(c) ==
    Add(Add(Trim([i \in 1..Len(c) |-> c[i] % Base]),
            Shift(Trim([i \in 1..Len(c) |-> (c[i] \div Base) % Base]), 1)),
        Shift(Trim([i \in 1..Len(c) |-> c[i] \div (Base * Base)]), 2))

\* a * b
Mul(a, b) == IF a = <<>> \/ b = <<>> THEN <<>> ELSE Carried(Products(a, b))

\* The limbs of a natural number below 2^31.
FromNat(n) ==
    Trim(<<n \div (Base * Base * Base), (n \div (Base * Base)) % Base,
           (n \div Base) % Base, n % Base>>)

\* The value of a number of at most three limbs.
ToNat(a) == Limb(a, 2) * Base * Base + Limb(a, 1) * Base + Limb(a, 0)

RECURSIVE Pow2(_)
\* 2^j, by halves of the exponent.
Pow2(j) ==
    IF j < 30 THEN FromNat(2 ^ j) ELSE Mul(Pow2(j \div 2), Pow2(j - j \div 2))

\* a \div d for a divisor d of 8: Base is a multiple of d, so a limb takes
\* from the limbs above it only the remainder of the one next to it.
DivSmall(a, d) ==
    Trim([i \in 1..Len(a) |->
            ((IF i > 1 THEN (a[i - 1] % d) * Base ELSE 0) + a[i]) \div d])

RECURSIVE Halved(_, _)
\* a \div 2^s, three bits at a time.
Halved(a, s) ==
    IF s = 0 \/ a = <<>> THEN a
    ELSE Halved(DivSmall(a, 2 ^ Min(s, 3)), s - Min(s, 3))

RECURSIVE IsMultiple(_, _)
\* a is a multiple of 2^s.
IsMultiple(a, s) ==
    \/ s = 0
    \/ /\ Limb(a, 0) % (2 ^ Min(s, 3)) = 0
       /\ IsMultiple(DivSmall(a, 2 ^ Min(s, 3)), s - Min(s, 3))

\* 10^j
Pow10(j) == Shift(FromNat(10 ^ (j % 3)), j \div 3)

\* The quotient of r by m, for r < m * Base: bracketed by the leading limbs
\* of the two, then settled by multiplication.
QuotDigit(r, m) ==
    IF Len(m) = 1 THEN ToNat(r) \div m[1]
    ELSE LET rt == Limb(r, Len(m)) * Base * Base + Limb(r, Len(m) - 1) * Base
                   + Limb(r, Len(m) - 2)
             mt == m[1] * Base + m[2]
         IN (rt \div (mt + 1))
            + Cardinality({ c \in ((rt \div (mt + 1)) + 1)..Min(Base - 1, (rt + 1) \div mt) :
                              Leq(Mul(m, <<c>>), r) })

DivResult(q, r) == [q |-> q, r |-> r]

RECURSIVE DivFrom(_, _, _, _, _)
\* Long division of n by m: the quotient limb d of the remainder r, which
\* has limb i of n as its last limb.
DivLimb(n, m, i, r, q, d) ==
    DivFrom(n, m, i + 1, Sub(r, Mul(m, <<d>>)), Append(q, d))
DivStep(n, m, i, r, q) ==
    IF Less(r, m) THEN DivFrom(n, m, i + 1, r, Append(q, 0))
    ELSE DivLimb(n, m, i, r, q, QuotDigit(r, m))
\* Long division of n by m from limb i of n on, with the remainder r and
\* the quotient limbs q so far.
DivFrom(n, m, i, r, q) ==
    IF i > Len(n) THEN DivResult(Trim(q), r)
    ELSE DivStep(n, m, i, Trim(Append(r, n[i])), q)

\* The quotient and the remainder of n by m > 0.
DivMod(n, m) ==
    IF Len(n) < Len(m) THEN DivResult(<<>>, n)
    ELSE DivFrom(n, m, Len(m), SubSeq(n, 1, Len(m) - 1), <<>>)

(***************************************************************************)
(* Number values (IEEE 754 binary64): NaN, an infinity, or the finite      *)
(* value (-1)^neg * m * 2^e, m a natural number below 2^53.  Each value    *)
(* has one form: e = 0 for an integer below 2^53, m odd and e < 0 for a    *)
(* value with a fraction, m >= 2^52 and e > 0 for the larger integers.     *)
(***************************************************************************)
NaN == [nan |-> TRUE, inf |-> FALSE, neg |-> FALSE, m |-> <<>>, e |-> 0]
Infinity(neg) == [nan |-> FALSE, inf |-> TRUE, neg |-> neg, m |-> <<>>, e |-> 0]
Finite(neg, m, e) == [nan |-> FALSE, inf |-> FALSE, neg |-> neg, m |-> m, e |-> e]
Zero(neg) == Finite(neg, <<>>, 0)

\* 2^52 and 2^53.
TwoTo52 == <<4, 503, 599, 627, 370, 496>>
TwoTo53 == <<9, 7, 199, 254, 740, 992>>
\* The exponents of the least subnormal and of the greatest finite value.
MinExponent == -1074
MaxExponent == 971

\* The number of an integer of the model.
FromInteger(n) == Finite(n < 0, FromNat(IF n < 0 THEN 0 - n ELSE n), 0)

\* A lower estimate of log2(a), for a > 0, less than 2.01 below it: the
\* bits of the three leading limbs, and 9.96578 bits for each limb below.
Log2Estimate(a) ==
    Cardinality({ b \in 1..30 : 2 ^ b <= ToNat(SubSeq(a, 1, Min(3, Len(a)))) })
    + ((Len(a) - Min(3, Len(a))) * 996578) \div 100000

\* The form of the value q * 2^e, for q below 2^53 and e <= 0: factors of
\* two are moved from q to the exponent.
ReducedBy(neg, q, e, t) == Finite(neg, Halved(q, t), e + t)
Reduced(neg, q, e) ==
    ReducedBy(neg, q, e, Cardinality({ u \in 1..Min(0 - e, 52) : IsMultiple(q, u) }))

\* The number q * 2^e, for q below 2^53.
Packed(neg, q, e) ==
    IF q = <<>> THEN Zero(neg)
    ELSE IF e > MaxExponent THEN Infinity(neg)
    ELSE IF e >= 0 THEN Finite(neg, q, e)
    ELSE Reduced(neg, q, e)

\* The number of the rounded significand q at exponent e: a significand
\* that rounding carried to 2^53 is 2^52 at the next exponent.
Pack(neg, q, e) ==
    Packed(neg, IF q = TwoTo53 THEN TwoTo52 ELSE q, IF q = TwoTo53 THEN e + 1 ELSE e)

\* Dropping the s low bits of q rounds up: the first of them is set, and
\* either more is dropped than half a unit (a lower bit is set or the
\* remainder is sticky) or the bits that are kept are odd.
RoundsUp(q, sticky, s) ==
    /\ Limb(Halved(q, s - 1), 0) % 2 = 1
    /\ \/ sticky
       \/ ~IsMultiple(q, s - 1)
       \/ Limb(Halved(q, s), 0) % 2 = 1

\* q * 2^x with a sticky remainder, for 2^53 <= q < 2^59, rounded to the
\* nearest value, ties to even: s low bits of q are dropped, more of them
\* for a subnormal result.
RoundBits(neg, q, sticky, x, s) ==
    IF s > 60 THEN Zero(neg)
    ELSE Pack(neg, Add(Halved(q, s), IF RoundsUp(q, sticky, s) THEN <<1>> ELSE <<>>), x + s)

\* The bits of q above the 53rd, for 2^53 <= q < 2^59.
ExtraBits(q) == Cardinality({ t \in 1..6 : Halved(q, 52 + t) /= <<>> }) - 1

RoundQuotient(neg, d, x) ==
    RoundBits(neg, d.q, d.r /= <<>>, x,
              Max(ExtraBits(d.q) + 1, MinExponent - x))

\* n * 2^j / m
Scaled(n, m, j) ==
    DivMod(Mul(n, Pow2(Max(j, 0))), Mul(m, Pow2(Max(0 - j, 0))))

RoundScaled(neg, n, m, k, j) == RoundQuotient(neg, Scaled(n, m, j), k - j)

\* The number nearest to n / m * 2^k, for n > 0 and m > 0.
Round(neg, n, m, k) ==
    RoundScaled(neg, n, m, k, 56 - (Log2Estimate(n) - Log2Estimate(m)))

\* The number nearest to n / m * 2^k, for m > 0: an integer below 2^53 is
\* its own number.
Nearest(neg, n, m, k) ==
    IF n = <<>> THEN Zero(neg)
    ELSE IF m = <<1>> /\ k = 0 /\ Less(n, TwoTo53) THEN Finite(neg, n, 0)
    ELSE Round(neg, n, m, k)

\* m * 2^k
Times2(m, k) == IF k = 0 THEN m ELSE Mul(m, Pow2(k))


(***************************************************************************)
(* StringToNumber: the StringNumericLiteral grammar of ECMAScript.        *)
(***************************************************************************)
\* The length of the longest prefix of s that has no character of the set.
Before(s, chars) ==
    Cardinality({ i \in 1..Len(s) : \A j \in 1..i : CharAt(s, j) \notin chars })

AllDigits(s) == \A i \in 1..Len(s) : IsDigit(CharAt(s, i))

\* The digits of the radixes 2, 8 and 16, and the value of one.
RadixDigits == "0123456789abcdef"
RadixUpperDigits == "0123456789ABCDEF"
RadixValue(c) ==
    (CHOOSE i \in 1..16 : CharAt(RadixDigits, i) = c \/ CharAt(RadixUpperDigits, i) = c) - 1
IsRadixDigit(c, radix) ==
    \E i \in 1..radix : CharAt(RadixDigits, i) = c \/ CharAt(RadixUpperDigits, i) = c
AllRadixDigits(s, radix) == \A i \in 1..Len(s) : IsRadixDigit(CharAt(s, i), radix)

\* The value of a short numeral, below 2^31.
SmallValue(s, radix) ==
    Sum([i \in 1..Len(s) |-> RadixValue(CharAt(s, i)) * radix ^ (Len(s) - i)])

\* s without its leading zeros.
Significant(s) == From(s, Before(s, {"1", "2", "3", "4", "5", "6", "7", "8", "9",
                                      "a", "b", "c", "d", "e", "f",
                                      "A", "B", "C", "D", "E", "F"}) + 1)

\* The value of a string of decimal digits, three to a limb.
DigitsToNat(s) ==
    Trim([i \in 1..((Len(s) + 2) \div 3) |->
            SmallValue(SubSeq(s, Max(1, Len(s) - 3 * (((Len(s) + 2) \div 3) - i) - 2),
                              Len(s) - 3 * (((Len(s) + 2) \div 3) - i)), 10)])

RECURSIVE RadixToNat(_, _)
\* The value of a string of digits of the radix 2^bits, by halves.
RadixToNat(s, bits) ==
    IF Len(s) * bits <= 30 THEN FromNat(SmallValue(s, 2 ^ bits))
    ELSE Add(Mul(RadixToNat(SubSeq(s, 1, Len(s) \div 2), bits),
                 Pow2(bits * (Len(s) - Len(s) \div 2))),
             RadixToNat(From(s, Len(s) \div 2 + 1), bits))

\* The bits of a digit of the literal's radix: 0x, 0o, 0b, or 0 for a
\* literal without such a prefix.
PrefixBits(t) ==
    IF Len(t) < 2 THEN 0
    ELSE CASE SubSeq(t, 1, 2) \in {"0x", "0X"} -> 4
           [] SubSeq(t, 1, 2) \in {"0o", "0O"} -> 3
           [] SubSeq(t, 1, 2) \in {"0b", "0B"} -> 1
           [] OTHER -> 0

\* The significant digits of a literal of the radix 2^bits: 2^1024 and
\* more is Infinity.
RadixNumber(sig, bits) ==
    IF (Len(sig) - 1) * bits >= 1024 THEN Infinity(FALSE)
    ELSE Nearest(FALSE, RadixToNat(sig, bits), <<1>>, 0)

\* NonDecimalIntegerLiteral: the digits after the prefix.
NonDecimalLiteral(digits, bits) ==
    IF digits = "" \/ ~AllRadixDigits(digits, 2 ^ bits) THEN NaN
    ELSE RadixNumber(Significant(digits), bits)

\* More significant digits than any double or midpoint of two doubles has.
MaxDigits == 780

\* The value sig * 10^exp10 of a string of digits without leading zeros:
\* 10^309 and more is Infinity, less than 10^-324 is zero.
DecimalNumber(neg, sig, exp10) ==
    IF sig = "" THEN Zero(neg)
    ELSE IF Len(sig) + exp10 > 309 THEN Infinity(neg)
    ELSE IF Len(sig) + exp10 < -323 THEN Zero(neg)
    ELSE Nearest(neg, Mul(DigitsToNat(sig), Pow10(Max(exp10, 0))),
                 Pow10(Max(0 - exp10, 0)), 0)

\* Digits beyond MaxDigits are cut to one digit that says whether any of
\* them is not zero: the nearest double is the same.
CutDigits(neg, sig, exp10) ==
    DecimalNumber(neg,
                  IF Len(sig) <= MaxDigits THEN sig
                  ELSE SubSeq(sig, 1, MaxDigits)
                       \o (IF Significant(From(sig, MaxDigits + 1)) = "" THEN "0" ELSE "1"),
                  IF Len(sig) <= MaxDigits THEN exp10
                  ELSE exp10 + Len(sig) - MaxDigits - 1)

\* The value of the digits of an exponent, at most 9999999.
ExponentValue(digits) ==
    IF Len(Significant(digits)) > 7 THEN 9999999
    ELSE SmallValue(Significant(digits), 10)

\* The exponent part after its e: an optional sign and digits.
ExponentDigits(part) ==
    IF CharAt(part, 1) \in {"+", "-"} THEN From(part, 2) ELSE part
ExponentValid(part) ==
    part /= "" /\ ExponentDigits(part) /= "" /\ AllDigits(ExponentDigits(part))
ExponentOf(part) ==
    IF CharAt(part, 1) = "-" THEN 0 - ExponentValue(ExponentDigits(part))
    ELSE ExponentValue(ExponentDigits(part))

\* The digits before and after the decimal point, and the exponent.
DecimalParts(neg, int, frac, exp10) ==
    IF ~AllDigits(int) \/ ~AllDigits(frac) \/ Len(int) + Len(frac) = 0 THEN NaN
    ELSE CutDigits(neg, Significant(int \o frac), exp10 - Len(frac))

\* The mantissa: digits, an optional point, digits.
Mantissa(neg, mant, exp10) ==
    DecimalParts(neg, SubSeq(mant, 1, Before(mant, {"."})),
                 From(mant, Min(Len(mant), Before(mant, {"."}) + 1) + 1), exp10)

\* A literal has an exponent part behind its first e.
HasExponent(u) == Before(u, {"e", "E"}) < Len(u)
ExponentPart(u) == From(u, Before(u, {"e", "E"}) + 2)

\* StrUnsignedDecimalLiteral: Infinity, or a mantissa and an optional
\* exponent part.
UnsignedDecimalLiteral(neg, u) ==
    IF u = "Infinity" THEN Infinity(neg)
    ELSE IF HasExponent(u) /\ ~ExponentValid(ExponentPart(u)) THEN NaN
    ELSE Mantissa(neg, SubSeq(u, 1, Before(u, {"e", "E"})),
                  IF HasExponent(u) THEN ExponentOf(ExponentPart(u)) ELSE 0)

\* StrNumericLiteral: nothing is +0; a literal with a radix prefix has no
\* sign; a decimal literal has an optional sign.
NumericLiteral(t) ==
    IF t = "" THEN Zero(FALSE)
    ELSE IF PrefixBits(t) > 0 THEN NonDecimalLiteral(From(t, 3), PrefixBits(t))
    ELSE UnsignedDecimalLiteral(CharAt(t, 1) = "-",
                                IF CharAt(t, 1) \in {"+", "-"} THEN From(t, 2) ELSE t)

\* The white space of StrWhiteSpace that a string of the model can hold
\* (characters up to U+00FF): space, tab, line feed, carriage return, form
\* feed, vertical tab (U+000B) and no-break space (U+00A0).
IsWhiteSpace(c) == c \in {" ", "\t", "\n", "\r", "\f", "", " "}

\* s without the white space at its two ends.
TrimString(s) ==
    IF \A i \in 1..Len(s) : IsWhiteSpace(CharAt(s, i)) THEN ""
    ELSE SubSeq(s,
                Cardinality({ i \in 1..Len(s) :
                                \A j \in 1..i : IsWhiteSpace(CharAt(s, j)) }) + 1,
                Len(s) - Cardinality({ i \in 1..Len(s) :
                                         \A j \in i..Len(s) : IsWhiteSpace(CharAt(s, j)) }))

\* StringToNumber of ECMAScript: Number(s) for a string.
StringToNumber(s) == NumericLiteral(TrimString(s))

\* The number of a value that converts: an array or object is converted
\* through its string.
NumberOf(v) ==
    CASE v.k = "undef" -> NaN
      [] v.k = "null" -> Zero(FALSE)
      [] v.k = "num" -> FromInteger(v.n)
      [] OTHER -> StringToNumber(StringOf(v))

\* ToNumber(v), as the operators - and > apply it: the number, or thrown.
ToNumber(v) ==
    IF Unconvertible(v) THEN [thrown |-> TRUE, n |-> NaN]
    ELSE [thrown |-> FALSE, n |-> NumberOf(v)]

\* x - y of two finite numbers of the magnitudes a and b at one exponent k:
\* the magnitudes add when the signs differ; equal numbers give +0; else
\* the sign is that of x when its magnitude is the larger.
SignedDifference(xneg, a, yneg, b, k) ==
    IF xneg = yneg /\ a = b THEN Zero(FALSE)
    ELSE Nearest(IF xneg /= yneg \/ Less(b, a) THEN xneg ELSE ~xneg,
                 IF xneg /= yneg THEN Add(a, b)
                 ELSE IF Less(b, a) THEN Sub(a, b) ELSE Sub(b, a),
                 <<1>>, k)

\* x - y
Difference(x, y) ==
    IF x.nan \/ y.nan THEN NaN
    ELSE IF x.inf THEN (IF y.inf /\ x.neg = y.neg THEN NaN ELSE x)
    ELSE IF y.inf THEN Infinity(~y.neg)
    ELSE SignedDifference(x.neg, Times2(x.m, x.e - Min(x.e, y.e)),
                          y.neg, Times2(y.m, y.e - Min(x.e, y.e)), Min(x.e, y.e))

\* x > 0 and x < 0 of a number: false of NaN.
IsPositive(x) == ~x.nan /\ ~x.neg /\ (x.inf \/ x.m /= <<>>)
IsNegative(x) == ~x.nan /\ x.neg /\ (x.inf \/ x.m /= <<>>)

\* x - y of two operands converted by ToNumber.
Minus(x, y) ==
    IF x.thrown \/ y.thrown THEN [thrown |-> TRUE, n |-> NaN]
    ELSE [thrown |-> FALSE, n |-> Difference(x.n, y.n)]

\* x > 0 of an operand converted by ToNumber.
GreaterThanZero(x) == [thrown |-> x.thrown, v |-> ~x.thrown /\ IsPositive(x.n)]

Thrown(message) == [thrown |-> TRUE, message |-> message, result |-> JNull]
Returned(result) == [thrown |-> FALSE, message |-> "", result |-> result]

\* Mutant: response.ok is not tested, so the body of a non-success response
\* is returned as the result.
RunDetectionTryIgnoresStatus(resp) ==
    IF resp.kind = "reject" THEN Thrown(resp.msg)
    ELSE LET p == JsonParse(resp.body) IN
         IF ~p.ok THEN Thrown(resp.msg)
         ELSE Returned(p.v)

\* throw new Error(errorData.detail || "Prediction failed"): the error
\* thrown has the string of the detail for its message, or is the
\* TypeError of the engine when the detail has none.
ThrowDetail(detail, message) ==
    IF ~Truthy(detail) THEN Thrown(MsgPredictionFailed)
    ELSE IF ToStr(detail).thrown THEN Thrown(message)
    ELSE Thrown(ToStr(detail).s)

\* The try block from the settling of fetch() on: what it throws, or the
\* parsed result it goes on to store.
RunDetectionTry(resp) ==
    IF resp.kind = "reject" THEN Thrown(resp.msg)
    ELSE LET p == JsonParse(resp.body) IN
         IF ~p.ok THEN Thrown(resp.msg)
         ELSE IF ~resp.ok
              THEN LET detail == Get(p.v, "detail") IN
                   IF detail.thrown THEN Thrown(resp.msg)
                   ELSE ThrowDetail(detail.v, resp.msg)
         ELSE Returned(p.v)

\* The text the catch block alerts for error.message.
ErrorMessage(message) ==
    MsgPrefix \o (IF Includes(message, FailedToFetch) THEN MsgBackend ELSE message)

\* Outcome of the synchronous part of runDetection (up to the fetch call).
StartState(issue, dis, load, al) ==
    [issue |-> issue, runDisabled |-> dis, loadingActive |-> load, alert |-> al]

\* Mutant: the selectedFile guard is missing.
RunDetectionStartNoGuard(sel, dis, load) == StartState(TRUE, TRUE, TRUE, NoAlert)

\* runDetection from the click to the fetch call: the no-file notice, or the
\* button disabled, the overlay shown and one request issued.
RunDetectionStart(sel, dis, load) ==
    IF sel = NoFile THEN StartState(FALSE, dis, load, MsgNoFile)
    ELSE StartState(TRUE, TRUE, TRUE, NoAlert)

CatchState(dis, load, al) == [runDisabled |-> dis, loadingActive |-> load, alert |-> al]

\* Mutant: the catch block forgets to re-enable the button.
RunDetectionCatchKeepsDisabled(message, dis, load) ==
    CatchState(dis, FALSE, ErrorMessage(message))

\* The catch block: hideLoading(), the button re-enabled, the alert.
RunDetectionCatch(message, dis, load) ==
    CatchState(FALSE, FALSE, ErrorMessage(message))

(***************************************************************************)
(* The session-storage slot under the key "detectionResult".               *)
(***************************************************************************)
\* No response body handed to the result page.
NoBody == <<>>

\* getItem returned null.
NoItem == [present |-> FALSE, text |-> <<>>]
Item(text) == [present |-> TRUE, text |-> text]

\* sessionStorage.setItem("detectionResult", JSON.stringify(result))
SetItem(result) == Item(Stringify(result))

(***************************************************************************)
(* results-multimodel.js.                                                  *)
(***************************************************************************)
DETECTION_THRESHOLD == 50

\* Object.keys(MODEL_CONFIG), in declaration order.
MODEL_CONFIG == << "model_a", "model_b", "model_c" >>

ConfigTitle(modelKey) ==
    CASE modelKey = "model_a" -> "EfficientNet V2"
      [] modelKey = "model_b" -> "ConvNext"
      [] modelKey = "model_c" -> "Hybrid Model"
      [] OTHER -> "undefined"

\* The src attributes of the two images; unset before displayImages.
NoImages == [original |-> "", processed |-> ""]

\* The two assignments of displayImages on the strings of the locators:
\* the first one that has no string throws, and what was assigned before
\* stays.
BindImages(original, processed) ==
    IF original.thrown THEN [thrown |-> TRUE, images |-> NoImages]
    ELSE IF processed.thrown
         THEN [thrown |-> TRUE,
               images |-> [original |-> API_URL \o original.s, processed |-> ""]]
    ELSE [thrown |-> FALSE,
          images |-> [original |-> API_URL \o original.s,
                      processed |-> API_URL \o processed.s]]

\* displayImages: the two locators resolved against API_URL.  Reading a
\* property of null throws.
DisplayImages(results) ==
    IF Get(results, "original_image").thrown THEN [thrown |-> TRUE, images |-> NoImages]
    ELSE BindImages(ToStr(Get(results, "original_image").v),
                    ToStr(Get(results, "processed_image").v))

\* Object.entries: a TypeError for null and undefined; the own properties
\* of an object; the indices and elements of an array; the indices and
\* characters of a string; nothing for a number, which has no own property.
ObjectEntries(v) ==
    CASE v.k \in {"null", "undef"} -> [thrown |-> TRUE, entries |-> <<>>]
      [] v.k = "obj" -> [thrown |-> FALSE, entries |-> v.e]
      [] v.k = "arr" ->
           [thrown |-> FALSE,
            entries |-> [i \in 1..Len(v.a) |-> Entry(Numeral(i - 1), v.a[i])]]
      [] v.k = "str" ->
           [thrown |-> FALSE,
            entries |-> [i \in 1..Len(v.s) |-> Entry(Numeral(i - 1), JStr(CharAt(v.s, i)))]]
      [] OTHER -> [thrown |-> FALSE, entries |-> <<>>]

\* Mutant: the comparator (a, b) => a[1] - b[1].
CompareAscending(a, b) == Minus(ToNumber(a.val), ToNumber(b.val))

\* The comparator (a, b) => b[1] - a[1]: the difference of the two values
\* converted to numbers, NaN if either has no numeric reading; thrown if
\* either does not convert.
Compare(a, b) == Minus(ToNumber(b.val), ToNumber(a.val))

\* The comparator applied to every two entries of a sequence, by position.
Comparisons(es) ==
    [i \in 1..Len(es) |-> [j \in 1..Len(es) |-> Compare(es[i], es[j])]]

\* x placed after the first n elements.
InsertAt(sorted, x, n) ==
    SubSeq(sorted, 1, n) \o <<x>> \o SubSeq(sorted, n + 1, Len(sorted))

\* The position x placed after every position that does not sort after
\* it: these form a prefix of a sorted sequence.
InsertSorted(sorted, x, cmp) ==
    InsertAt(sorted, x,
             Cardinality({ i \in 1..Len(sorted) :
                             \A j \in 1..i : ~IsPositive(cmp[sorted[j]][x].n) }))

RECURSIVE SortFrom(_, _, _)
\* A stable sort by insertion of the positions i and above.
SortFrom(cmp, i, acc) ==
    IF i > Len(cmp) THEN acc ELSE SortFrom(cmp, i + 1, InsertSorted(acc, i, cmp))

\* The entries in an order of their positions.
Permuted(es, order) == [i \in 1..Len(es) |-> es[order[i]]]

\* The orders of a sequence.
Orderings(es) ==
    { Permuted(es, p) :
        p \in { q \in [1..Len(es) -> 1..Len(es)] :
                  \A i, j \in 1..Len(es) : q[i] = q[j] => i = j } }

\* What a sort does, given the comparisons.  Every one of two or more
\* elements is compared with another, so the sort throws when the
\* comparator throws for two distinct elements.  When the comparator
\* yields a number for every two of the values (the same value twice
\* included) it is consistent and the sort is stable, so it leaves one
\* order; when it yields NaN the order is implementation-defined.
SortWith(es, cmp) ==
    IF \E i, j \in 1..Len(es) : i /= j /\ cmp[i][j].thrown
    THEN [thrown |-> TRUE, orders |-> {}]
    ELSE [thrown |-> FALSE,
          orders |-> IF \E i, j \in 1..Len(es) : cmp[i][j].n.nan
                     THEN Orderings(es)
                     ELSE { Permuted(es, SortFrom(cmp, 1, <<>>)) }]

\* Array.prototype.sort with the comparator above.
SortConfidences(es) == SortWith(es, Comparisons(es))

\* Mutant: !(detected.length < 0), true of every array.
NotBelowZero(x) == [thrown |-> x.thrown, v |-> ~x.thrown /\ ~IsNegative(x.n)]
HasLengthOrEmpty(d) == NotBelowZero(ToNumber(Get(d, "length").v))

\* detected.length > 0, for a detected that is neither null nor undefined:
\* the length of an array or string, the own property length of an object,
\* undefined otherwise, converted to a number; thrown if it does not
\* convert.
HasLength(d) == GreaterThanZero(ToNumber(Get(d, "length").v))

\* Mutant: a score equal to the threshold is not marked.
ScoreRowStrict(e) ==
    [label |-> e.key, confidence |-> e.val.n,
     isDetected |-> e.val.n > DETECTION_THRESHOLD]

ScoreRow(e) ==
    [label |-> e.key, confidence |-> e.val.n,
     isDetected |-> e.val.n >= DETECTION_THRESHOLD]

NoCard == [key |-> "", title |-> "", ensemble |-> FALSE, headline |-> "none",
           badges |-> <<>>, rows |-> <<>>]

\* The card renderModelCard returns: the headline and the badges from
\* detected, the rows from the sorted entries.
ModelCard(modelKey, detected, hasLength, sortedConfidences) ==
    [key |-> modelKey,
     title |-> ConfigTitle(modelKey),
     ensemble |-> modelKey = "ensemble",
     headline |-> IF hasLength THEN "detected" ELSE "no-detection",
     badges |-> IF hasLength THEN [i \in 1..Len(detected.a) |-> ToStr(detected.a[i]).s]
                ELSE <<>>,
     rows |-> [i \in 1..Len(sortedConfidences) |-> ScoreRow(sortedConfidences[i])]]

\* renderModelCard on detected, the outcome of detected.length > 0 and
\* the outcome of the sort: thrown when the sort or the test of the length
\* threw, when detected.map or confidence.toFixed is not a function, and
\* when a label of detected has no string for its badge.  A row is reached
\* in whatever order the sort left, so one value that is not a number
\* throws.  With numbers only the sort has one outcome.
RenderSorted(modelKey, detected, hasLength, sorted, entries) ==
    IF \/ sorted.thrown
       \/ hasLength.thrown
       \/ hasLength.v /\ detected.k /= "arr"
       \/ hasLength.v /\ \E i \in 1..Len(detected.a) : ToStr(detected.a[i]).thrown
       \/ \E i \in 1..Len(entries) : entries[i].val.k /= "num"
    THEN [thrown |-> TRUE, card |-> NoCard]
    ELSE [thrown |-> FALSE,
          card |-> ModelCard(modelKey, detected, hasLength.v,
                             CHOOSE order \in sorted.orders : TRUE)]

\* renderModelCard on detected, the outcome of detected.length > 0 and of
\* Object.entries(confidences), which it sorts.
RenderEntries(modelKey, detected, hasLength, confidences) ==
    IF confidences.thrown THEN [thrown |-> TRUE, card |-> NoCard]
    ELSE RenderSorted(modelKey, detected, hasLength,
                      SortConfidences(confidences.entries), confidences.entries)

\* renderModelCard on the values of "modelData.detected || []" and
\* "modelData.confidences || {}".
RenderFields(modelKey, detected, confidences) ==
    RenderEntries(modelKey, detected, HasLength(detected), ObjectEntries(confidences))

\* x || y
OrElse(x, y) == IF Truthy(x) THEN x ELSE y

\* renderModelCard: the card, or thrown.
RenderModelCard(modelKey, modelData) ==
    RenderFields(modelKey,
                 OrElse(Get(modelData, "detected").v, JArr(<<>>)),
                 OrElse(Get(modelData, "confidences").v, JObj(<<>>)))

RECURSIVE RenderLoop(_, _, _)
\* The loop after renderModelCard: a card that threw ends it.
RenderNext(predictions, i, acc, r) ==
    IF r.thrown THEN [thrown |-> TRUE, cards |-> <<>>]
    ELSE RenderLoop(predictions, i + 1, Append(acc, r.card))

\* The loop on predictions[modelKey]: a missing source is skipped.
RenderModel(predictions, i, acc, modelData) ==
    IF modelData.thrown THEN [thrown |-> TRUE, cards |-> <<>>]
    ELSE IF ~Truthy(modelData.v) THEN RenderLoop(predictions, i + 1, acc)
    ELSE RenderNext(predictions, i, acc, RenderModelCard(MODEL_CONFIG[i], modelData.v))

\* The for loop of displayModelComparison over Object.entries(MODEL_CONFIG).
\* Indexing predictions throws when it is undefined or null.
RenderLoop(predictions, i, acc) ==
    IF i > Len(MODEL_CONFIG) THEN [thrown |-> FALSE, cards |-> acc]
    ELSE RenderModel(predictions, i, acc, Get(predictions, MODEL_CONFIG[i]))

\* displayModelComparison: the cards written to #model-comparison, from
\* results.predictions (results is not null: displayImages has read it).
DisplayModelComparison(results) ==
    RenderLoop(Get(results, "predictions").v, 1, <<>>)

MsgNoResults == "No detection results found. Please upload a DICOM file first."
MsgLoadError == "Error loading results. Please try again."
NoHref == ""
ResultsHref == "results.html"
DetectionHref == "detection.html"

InitState(found, al, to, im, cs, st) ==
    [found |-> found, alert |-> al, href |-> to, images |-> im, cards |-> cs,
     storage |-> st]

\* init() after displayImages: displayModelComparison, then the catch
\* block if it threw, else the cards bound.
InitRendered(item, images, cmp) ==
    IF cmp.thrown THEN InitState(TRUE, MsgLoadError, DetectionHref, images, <<>>, item)
    ELSE InitState(TRUE, NoAlert, NoHref, images, cmp.cards, item)

\* init() after JSON.parse: displayImages, then the catch block if it
\* threw.
InitBound(item, results, im) ==
    IF im.thrown THEN InitState(TRUE, MsgLoadError, DetectionHref, im.images, <<>>, item)
    ELSE InitRendered(item, im.images, DisplayModelComparison(results))

\* init() from JSON.parse on: the catch block if the text does not parse.
InitParsed(item, p) ==
    IF ~p.ok THEN InitState(TRUE, MsgLoadError, DetectionHref, NoImages, <<>>, item)
    ELSE InitBound(item, p.v, DisplayImages(p.v))

\* Mutant: the payload is removed from the slot once it is rendered.
ResultsInitRemovesItem(item) ==
    IF ~item.present \/ item.text = <<>>
    THEN InitState(FALSE, MsgNoResults, DetectionHref, NoImages, <<>>, item)
    ELSE LET r == InitParsed(item, JsonParse(item.text)) IN
         IF r.alert = NoAlert THEN [r EXCEPT !.storage = NoItem] ELSE r

\* Mutant: the empty-slot branch lacks its return, so init() goes on to
\* parse and bind null and ends in the catch block.
ResultsInitNoReturn(item) ==
    IF ~item.present \/ item.text = <<>>
    THEN InitState(FALSE, MsgLoadError, DetectionHref, NoImages, <<>>, item)
    ELSE InitParsed(item, JsonParse(item.text))

\* init() of the result page on the value getItem returns: the alert, the
\* redirect, the images and cards bound, and the slot afterwards.
ResultsInit(item) ==
    IF ~item.present \/ item.text = <<>>
    THEN InitState(FALSE, MsgNoResults, DetectionHref, NoImages, <<>>, item)
    ELSE InitParsed(item, JsonParse(item.text))

(***************************************************************************)
(* theme.js: ThemeManager.                                                 *)
(***************************************************************************)
\* A string that is there: a stored item, an attribute, a field that was
\* assigned.
Assigned(value) == [present |-> TRUE, value |-> value]
\* localStorage.getItem("theme") returned null: there is no item.
NoTheme == [present |-> FALSE, value |-> ""]
\* The data-theme attribute, currentTheme and the icon of a document whose
\* ThemeManager has not been constructed: nothing was assigned.
Unset == [present |-> FALSE, value |-> ""]

\* What the theme manager reads and writes: the localStorage item "theme",
\* the system's prefers-color-scheme: dark, the data-theme attribute of the
\* document, this.currentTheme, the icon, and whether the manager exists
\* (its listeners are registered).
ThemeState(stored, systemDark, dataTheme, currentTheme, icon, ready) ==
    [stored |-> stored, systemDark |-> systemDark, dataTheme |-> dataTheme,
     currentTheme |-> currentTheme, icon |-> icon, ready |-> ready]

\* A document before DOMContentLoaded, in a profile with nothing stored.
ThemeUnloaded == ThemeState(NoTheme, FALSE, Unset, Unset, Unset, FALSE)

\* e.matches ? "dark" : "light"
SchemeTheme(matches) == IF matches THEN "dark" ELSE "light"

\* Truthiness of what localStorage.getItem("theme") returns: null and the
\* empty string are falsy.
HasStoredTheme(stored) == stored.present /\ stored.value /= ""

\* getStoredTheme: localStorage, then the system preference.
GetStoredTheme(t) ==
    IF HasStoredTheme(t.stored) THEN t.stored.value ELSE SchemeTheme(t.systemDark)

\* updateIcon: the sun in dark mode, the moon in light mode.
UpdateIcon(theme) == IF theme = "dark" THEN "sun" ELSE "moon"

\* applyTheme: the attribute, currentTheme, the icon and the stored item.
ApplyTheme(t, theme) ==
    [t EXCEPT !.dataTheme = Assigned(theme), !.currentTheme = Assigned(theme),
              !.icon = Assigned(UpdateIcon(theme)), !.stored = Assigned(theme)]

\* The constructor and init(): the stored theme is applied and the two
\* listeners are registered.
ThemeManagerNew(t) ==
    LET fresh == [t EXCEPT !.dataTheme = Unset, !.currentTheme = Unset,
                           !.icon = Unset, !.ready = TRUE]
    IN ApplyTheme(fresh, GetStoredTheme(fresh))

\* toggleTheme
ToggleTheme(t) ==
    ApplyTheme(t, IF t.currentTheme = Assigned("light") THEN "dark" ELSE "light")

\* The "change" listener of matchMedia("(prefers-color-scheme: dark)").
OnSchemeChange(t, matches) ==
    IF ~HasStoredTheme(t.stored) THEN ApplyTheme(t, SchemeTheme(matches)) ELSE t

\* The items "theme" that a document may find stored.
StoredWords == {"", "none", "light", "dark"}

\* What is remembered of the theme manager's run: the last event, whether a
\* theme was stored when the document initialised, whether the toggle was
\* clicked since, and the number of events.
ThemeHistory(op, initStored, toggled, events) ==
    [op |-> op, initStored |-> initStored, toggled |-> toggled, events |-> events]
NoThemeHistory == ThemeHistory("none", FALSE, FALSE, 0)

(***************************************************************************)
(* The state: the page shown, the detection page's cell and widgets, the   *)
(* requests in flight, the storage slot, and the result page's bindings.   *)
(***************************************************************************)
VARIABLES
    page,             \* "detection" or "results": the document loaded
    selectedFile,     \* detection.js: let selectedFile
    fileNameDisplay,  \* #file-name textContent
    runDisabled,      \* #run-button disabled (initially as the markup has it)
    loadingActive,    \* #loading-overlay has class "active"
    pending,          \* the files of the POST /predict requests whose fetch has not settled (a bag)
    reading,          \* the requests whose response arrived and whose body is awaited (a bag)
    healthStage,      \* GET /health: "fetch" awaited, "body" awaited, or "done"
    storage,          \* sessionStorage slot "detectionResult"
    href,             \* the last assignment to window.location.href, if any
    navCount,         \* assignments to window.location.href by this document
    alertMsg,         \* the alert the last step showed (NoAlert: none)
    images,           \* results page: src of the two images
    cards,            \* results page: cards in #model-comparison
    issued,           \* POST requests issued so far
    reads,            \* loads of the result page in a row that found the payload
    handoff,          \* body of the response whose continuation last assigned location.href
    last,             \* the last step: its handler and inputs
    theme,            \* theme.js: the theme manager's state
    themeHist         \* the theme manager's last event and what preceded it

vars == <<page, selectedFile, fileNameDisplay, runDisabled, loadingActive,
          pending, reading, healthStage, storage, href, navCount, alertMsg, images,
          cards, issued, reads, handoff, last, theme, themeHist>>

\* The variables of theme.js.
themeVars == <<theme, themeHist>>


Step(op, file, resp) == [op |-> op, file |-> file, resp |-> resp]

Init ==
    /\ page = "detection"
    /\ selectedFile = NoFile
    /\ fileNameDisplay = InitialText
    /\ runDisabled \in BOOLEAN
    /\ loadingActive = FALSE
    /\ pending = EmptyBag
    /\ reading = EmptyBag
    /\ healthStage = "fetch"
    /\ storage = NoItem
    /\ href = NoHref
    /\ navCount = 0
    /\ alertMsg = NoAlert
    /\ images = NoImages
    /\ cards = <<>>
    /\ issued = 0
    /\ reads = 0
    /\ handoff = NoBody
    /\ last = Step("load", NoFile, NoResponse)
    /\ theme = ThemeUnloaded
    /\ themeHist = NoThemeHistory

(***************************************************************************)
(* Detection page handlers.                                                *)
(***************************************************************************)
\* The effect of validateAndDisplayFile(file) on the page.
Select(file) ==
    LET r == ValidateAndDisplayFile(file, selectedFile, fileNameDisplay, runDisabled) IN
    /\ selectedFile' = r.selectedFile
    /\ fileNameDisplay' = r.fileNameDisplay
    /\ runDisabled' = r.runDisabled
    /\ alertMsg' = r.alert

\* "change" on #dicom-file: handleFileSelect; files[0] may be absent.
HandleFileSelect(file) ==
    /\ page = "detection"
    /\ IF file = NoFile
       THEN UNCHANGED <<selectedFile, fileNameDisplay, runDisabled>> /\ alertMsg' = NoAlert
       ELSE Select(file)
    /\ last' = Step("select", file, NoResponse)
    /\ UNCHANGED <<page, loadingActive, pending, reading, healthStage, storage,
                   href, navCount, images, cards, issued, reads, handoff>>
    /\ UNCHANGED themeVars

\* "drop" on #upload-area: handleDrop; the transfer may hold no file.
HandleDrop(file) ==
    /\ page = "detection"
    /\ IF file = NoFile
       THEN UNCHANGED <<selectedFile, fileNameDisplay, runDisabled>> /\ alertMsg' = NoAlert
       ELSE Select(file)
    /\ last' = Step("select", file, NoResponse)
    /\ UNCHANGED <<page, loadingActive, pending, reading, healthStage, storage,
                   href, navCount, images, cards, issued, reads, handoff>>
    /\ UNCHANGED themeVars

\* "click" on #run-button (a disabled button dispatches no click):
\* runDetection up to the fetch call.
RunDetection ==
    /\ page = "detection"
    /\ ~runDisabled
    /\ LET r == RunDetectionStart(selectedFile, runDisabled, loadingActive) IN
       /\ r.issue => issued < MaxRequests
       /\ runDisabled' = r.runDisabled
       /\ loadingActive' = r.loadingActive
       /\ alertMsg' = r.alert
       /\ pending' = IF r.issue THEN pending (+) SetToBag({selectedFile}) ELSE pending
       /\ issued' = IF r.issue THEN issued + 1 ELSE issued
    /\ last' = Step("click", selectedFile, NoResponse)
    /\ UNCHANGED <<page, selectedFile, fileNameDisplay, reading, healthStage,
                   storage, href, navCount, images, cards, reads, handoff>>
    /\ UNCHANGED themeVars

\* A request whose response has arrived and whose body is awaited.
Awaited(file, ok) == [file |-> file, ok |-> ok]
\* A response of which only the status is known.
Headers(ok) == [kind |-> "http", ok |-> ok, body |-> <<>>, msg |-> ""]

\* The continuation of runDetection that ends an attempt, for the response
\* resp of the request that uploaded file: the catch block, or the store
\* and the assignment to location.href.
Settle(file, resp) ==
    /\ LET t == RunDetectionTry(resp) IN
       IF t.thrown
       THEN LET c == RunDetectionCatch(t.message, runDisabled, loadingActive) IN
            /\ runDisabled' = c.runDisabled
            /\ loadingActive' = c.loadingActive
            /\ alertMsg' = c.alert
            /\ UNCHANGED <<storage, href, navCount, reads, handoff>>
       ELSE /\ storage' = SetItem(t.result)
            /\ href' = ResultsHref
            /\ navCount' = navCount + 1
            /\ reads' = 0
            /\ handoff' = resp.body
            /\ alertMsg' = NoAlert
            /\ UNCHANGED <<runDisabled, loadingActive>>
    /\ last' = Step("settle", file, resp)
    /\ UNCHANGED <<page, selectedFile, fileNameDisplay, healthStage,
                   images, cards, issued>>
    /\ UNCHANGED themeVars

\* "await fetch(...)" rejects: the catch block runs in the same continuation.
FetchRejects(file, resp) ==
    /\ page = "detection"
    /\ BagIn(file, pending)
    /\ pending' = pending (-) SetToBag({file})
    /\ UNCHANGED reading
    /\ Settle(file, resp)

\* "await fetch(...)" resolves with a response: runDetection tests
\* response.ok, calls response.json() (line 151 or 156) and is suspended
\* again until the body has arrived.
FetchResponds(file, ok) ==
    /\ page = "detection"
    /\ BagIn(file, pending)
    /\ pending' = pending (-) SetToBag({file})
    /\ reading' = reading (+) SetToBag({Awaited(file, ok)})
    /\ alertMsg' = NoAlert
    /\ last' = Step("respond", file, Headers(ok))
    /\ UNCHANGED <<page, selectedFile, fileNameDisplay, runDisabled, loadingActive,
                   healthStage, storage, href, navCount, images, cards, issued, reads, handoff>>
    /\ UNCHANGED themeVars

\* "await response.json()" settles: the body of resp has arrived and is
\* parsed, and the rest of runDetection runs.
BodySettle(file, resp) ==
    /\ page = "detection"
    /\ resp.kind = "http"
    /\ BagIn(Awaited(file, resp.ok), reading)
    /\ reading' = reading (-) SetToBag({Awaited(file, resp.ok)})
    /\ UNCHANGED pending
    /\ Settle(file, resp)

\* What the two awaits of checkBackendHealth can settle with: fetch rejects,
\* resolves with a non-success status or with a success status; then the
\* body says the model is loaded, says it is not, or cannot be read.
HealthFetchOutcomes == {"health_unreachable", "health_not_ok", "health_responded"}
HealthBodyOutcomes == {"health_loaded", "health_not_loaded", "health_unreadable"}
HealthOutcomes == HealthFetchOutcomes \cup HealthBodyOutcomes

\* Mutant: an unreachable backend disables the run button.
CheckBackendHealthGates(outcome, dis) ==
    [runDisabled |-> IF outcome = "health_unreachable" THEN TRUE ELSE dis,
     alert |-> NoAlert]

\* A continuation of checkBackendHealth: every branch writes to the
\* console at most; the button and the alert are as they were.
CheckBackendHealth(outcome, dis) ==
    [runDisabled |-> dis, alert |-> NoAlert]

\* "await fetch(.../health)" settles: with a success status the function
\* calls response.json() and is suspended again, otherwise it ends.
HealthFetchSettle(outcome) ==
    /\ page = "detection"
    /\ healthStage = "fetch"
    /\ healthStage' = IF outcome = "health_responded" THEN "body" ELSE "done"
    /\ LET h == CheckBackendHealth(outcome, runDisabled) IN
       /\ runDisabled' = h.runDisabled
       /\ alertMsg' = h.alert
    /\ last' = Step(outcome, NoFile, NoResponse)
    /\ UNCHANGED <<page, selectedFile, fileNameDisplay, loadingActive,
                   pending, reading, storage, href, navCount, images, cards,
                   issued, reads, handoff>>
    /\ UNCHANGED themeVars

\* "await response.json()" of the health probe settles.
HealthBodySettle(outcome) ==
    /\ page = "detection"
    /\ healthStage = "body"
    /\ healthStage' = "done"
    /\ LET h == CheckBackendHealth(outcome, runDisabled) IN
       /\ runDisabled' = h.runDisabled
       /\ alertMsg' = h.alert
    /\ last' = Step(outcome, NoFile, NoResponse)
    /\ UNCHANGED <<page, selectedFile, fileNameDisplay, loadingActive,
                   pending, reading, storage, href, navCount, images, cards,
                   issued, reads, handoff>>
    /\ UNCHANGED themeVars

(***************************************************************************)
(* Page loads.                                                             *)
(***************************************************************************)
\* DOMContentLoaded of detection.html: a fresh document, init() and the
\* health probe started.
LoadDetection ==
    /\ page' = "detection"
    /\ selectedFile' = NoFile
    /\ fileNameDisplay' = InitialText
    /\ runDisabled' \in BOOLEAN
    /\ loadingActive' = FALSE
    /\ pending' = EmptyBag
    /\ reading' = EmptyBag
    /\ healthStage' = "fetch"
    /\ href' = NoHref
    /\ navCount' = 0
    /\ alertMsg' = NoAlert
    /\ images' = NoImages
    /\ cards' = <<>>
    /\ reads' = 0
    /\ UNCHANGED storage

\* DOMContentLoaded of results.html: a fresh document and init().  The
\* loads in a row that find the payload are counted up to MaxLoads.
LoadedResults(r) ==
    /\ r.found => reads < MaxLoads
    /\ page' = "results"
    /\ selectedFile' = NoFile
    /\ fileNameDisplay' = InitialText
    /\ runDisabled' = TRUE
    /\ loadingActive' = FALSE
    /\ pending' = EmptyBag
    /\ reading' = EmptyBag
    /\ healthStage' = "done"
    /\ storage' = r.storage
    /\ href' = r.href
    /\ navCount' = IF r.href = NoHref THEN 0 ELSE 1
    /\ alertMsg' = r.alert
    /\ images' = r.images
    /\ cards' = r.cards
    /\ reads' = IF r.found THEN reads + 1 ELSE reads

LoadResults == LoadedResults(ResultsInit(storage))

\* The navigation started by the last assignment to location.href commits.
Navigate ==
    /\ href /= NoHref
    /\ IF href = ResultsHref
       THEN LoadResults /\ UNCHANGED handoff
       ELSE LoadDetection /\ handoff' = NoBody
    /\ last' = Step("navigate", NoFile, NoResponse)
    /\ UNCHANGED <<issued>>
    /\ UNCHANGED themeVars

\* The user opens or reloads one of the two pages.
Visit(target) ==
    /\ IF target = "results" THEN LoadResults ELSE LoadDetection
    /\ handoff' = NoBody
    /\ last' = Step("visit", NoFile, NoResponse)
    /\ UNCHANGED <<issued>>
    /\ UNCHANGED themeVars

Next ==
    \/ \E file \in Files \cup {NoFile} : HandleFileSelect(file)
    \/ \E file \in Files \cup {NoFile} : HandleDrop(file)
    \/ RunDetection
    \/ \E file \in BagToSet(pending), resp \in Rejections : FetchRejects(file, resp)
    \/ \E file \in BagToSet(pending), ok \in BOOLEAN : FetchResponds(file, ok)
    \/ \E a \in BagToSet(reading), resp \in HttpResponses :
          resp.ok = a.ok /\ BodySettle(a.file, resp)
    \/ \E outcome \in HealthFetchOutcomes : HealthFetchSettle(outcome)
    \/ \E outcome \in HealthBodyOutcomes : HealthBodySettle(outcome)
    \/ Navigate
    \/ \E target \in {"detection", "results"} : Visit(target)

Spec == Init /\ [][Next]_vars

(***************************************************************************)
(* The result page alone: results.html is opened in a session whose slot   *)
(* holds the payload of an earlier successful submission, over all         *)
(* confidences mappings of up to MaxLabels labels.                         *)
(***************************************************************************)
\* The hemorrhage subtypes the pages name.
SubtypeLabels ==
    <<"Intraparenchymal", "Intraventricular", "Subarachnoid", "Subdural", "Epidural">>
RenderLabels ==
    { SubtypeLabels[i] : i \in { n \in 1..Len(SubtypeLabels) : n <= MaxLabels } }
\* Scores below, at and above DETECTION_THRESHOLD.
RenderScores == { 49, 50, 51 }

\* The confidences objects over RenderLabels: every order of every subset.
ConfidenceMappings ==
    UNION { { [i \in 1..n |-> Entry(f[i][1], JNum(f[i][2]))] :
              f \in { g \in [1..n -> RenderLabels \X RenderScores] :
                        \A i, j \in 1..n : g[i][1] = g[j][1] => i = j } } :
            n \in 0..Cardinality(RenderLabels) }

\* The detected field of a source: missing, empty, naming one label, an
\* object that is no array and has a length that reads as a number, or an
\* object whose length does not convert to a number.
DetectedVariants == { "missing", "empty", "one", "length", "unconvertible" }

RenderSource(d, conf) ==
    CASE d = "missing" -> JObj(<<Entry("confidences", JObj(conf))>>)
      [] d = "empty" -> SourceResult(<<>>, conf)
      [] d = "length" -> JObj(<<Entry("detected", JObj(<<Entry("length", JStr("1e3"))>>)),
                                Entry("confidences", JObj(conf))>>)
      [] d = "unconvertible" ->
           JObj(<<Entry("detected",
                        JObj(<<Entry("length", JObj(<<Entry("toString", JNum(1))>>))>>)),
                  Entry("confidences", JObj(conf))>>)
      [] OTHER -> SourceResult(<<JStr(SubtypeLabels[1])>>, conf)

\* A source the backend flags although its only score is below the threshold.
FlaggedBelowThreshold ==
    SourceResult(<<JStr("Subdural")>>, <<Entry("Subdural", JNum(49))>>)

RenderPayload(d, conf) ==
    JObj(<<Entry("predictions",
                 JObj(<<Entry("model_c", FlaggedBelowThreshold),
                        Entry("model_a", RenderSource(d, conf))>>)),
           Entry("original_image", ImgO),
           Entry("processed_image", ImgP)>>)

\* Payloads with a value that has no string: the locator of the processed
\* image, a label of detected, and one of two confidences.
UnconvertiblePayloads ==
    { JObj(<<Entry("predictions", JObj(<<Entry("model_a", FlaggedBelowThreshold)>>)),
             Entry("original_image", ImgO),
             Entry("processed_image", NoString)>>),
      JObj(<<Entry("predictions",
                   JObj(<<Entry("model_a",
                                SourceResult(<<NoString>>, <<Entry("Epidural", JNum(51))>>))>>)),
             Entry("original_image", ImgO),
             Entry("processed_image", ImgP)>>),
      JObj(<<Entry("predictions",
                   JObj(<<Entry("model_a",
                                SourceResult(<<>>, <<Entry("Epidural", JNum(51)),
                                                     Entry("Subdural", NoString)>>))>>)),
             Entry("original_image", ImgO),
             Entry("processed_image", ImgP)>>) }

RenderPayloads ==
    { RenderPayload(d, conf) : d \in DetectedVariants, conf \in ConfidenceMappings }
    \cup UnconvertiblePayloads

\* A freshly loaded detection page in a session that already stored a payload.
InitRender ==
    /\ page = "detection"
    /\ selectedFile = NoFile
    /\ fileNameDisplay = InitialText
    /\ runDisabled \in BOOLEAN
    /\ loadingActive = FALSE
    /\ pending = EmptyBag
    /\ reading = EmptyBag
    /\ healthStage = "fetch"
    /\ storage \in { SetItem(p) : p \in RenderPayloads }
    /\ href = NoHref
    /\ navCount = 0
    /\ alertMsg = NoAlert
    /\ images = NoImages
    /\ cards = <<>>
    /\ issued = 0
    /\ reads = 0
    /\ handoff = NoBody
    /\ last = Step("load", NoFile, NoResponse)
    /\ theme = ThemeUnloaded
    /\ themeHist = NoThemeHistory

\* The user opens (or reloads) results.html.
OpenResults == Visit("results")

NextRender == OpenResults

SpecRender == InitRender /\ [][NextRender]_vars

(***************************************************************************)
(* The theme manager alone: theme.js is loaded by a page, the user clicks  *)
(* the toggle and the system colour scheme changes, in any order; the      *)
(* detection workflow stays as the page load left it.                      *)
(***************************************************************************)
\* The variables of detection.js and results-multimodel.js.
workflowVars == <<page, selectedFile, fileNameDisplay, runDisabled, loadingActive,
                  pending, reading, healthStage, storage, href, navCount, alertMsg,
                  images, cards, issued, reads, handoff, last>>

\* A document before DOMContentLoaded: any stored theme (none; the empty
\* string or another word that a script of the origin left; light; dark),
\* any system scheme.
InitTheme ==
    /\ page = "detection"
    /\ selectedFile = NoFile
    /\ fileNameDisplay = InitialText
    /\ runDisabled \in BOOLEAN
    /\ loadingActive = FALSE
    /\ pending = EmptyBag
    /\ reading = EmptyBag
    /\ healthStage = "fetch"
    /\ storage = NoItem
    /\ href = NoHref
    /\ navCount = 0
    /\ alertMsg = NoAlert
    /\ images = NoImages
    /\ cards = <<>>
    /\ issued = 0
    /\ reads = 0
    /\ handoff = NoBody
    /\ last = Step("load", NoFile, NoResponse)
    /\ theme \in { ThemeState(stored, dark, Unset, Unset, Unset, FALSE) :
                     stored \in {NoTheme} \cup { Assigned(w) : w \in StoredWords },
                     dark \in BOOLEAN }
    /\ themeHist = NoThemeHistory

\* DOMContentLoaded of a page that includes theme.js: new ThemeManager().
ThemeLoad ==
    /\ themeHist.events < MaxThemeEvents
    /\ theme' = ThemeManagerNew(theme)
    /\ themeHist' = ThemeHistory("init", HasStoredTheme(theme.stored), FALSE,
                                 themeHist.events + 1)
    /\ UNCHANGED workflowVars

\* "click" on #theme-toggle.
ThemeToggleClick ==
    /\ theme.ready
    /\ themeHist.events < MaxThemeEvents
    /\ theme' = ToggleTheme(theme)
    /\ themeHist' = [themeHist EXCEPT !.op = "toggle", !.toggled = TRUE,
                                      !.events = @ + 1]
    /\ UNCHANGED workflowVars

\* The system colour scheme flips; the media query's "change" listener runs
\* if a manager registered it.
SystemSchemeChange ==
    /\ themeHist.events < MaxThemeEvents
    /\ LET flipped == [theme EXCEPT !.systemDark = ~@] IN
       theme' = IF theme.ready THEN OnSchemeChange(flipped, flipped.systemDark)
                ELSE flipped
    /\ themeHist' = [themeHist EXCEPT !.op = "system", !.events = @ + 1]
    /\ UNCHANGED workflowVars

NextTheme ==
    \/ ThemeLoad
    \/ ThemeToggleClick
    \/ SystemSchemeChange

SpecTheme == InitTheme /\ [][NextTheme]_vars

(***************************************************************************)
(* Vocabulary of the properties.                                           *)
(***************************************************************************)
Outstanding == BagCardinality(pending) + BagCardinality(reading)
IsSelectStep(l) == l.op = "select" /\ l.file /= NoFile
\* A file that passes both checks of validateAndDisplayFile.
Validated(f) == f /= NoFile /\ IsDicomName(f.name) /\ ~ExceedsMaxSize(f.size)
\* The ways a submission attempt fails once its request was issued.
IsNetworkFailure(resp) == resp.kind = "reject"
IsHttpError(resp) == resp.kind = "http" /\ ~resp.ok
IsUnparseable(resp) == resp.kind = "http" /\ ~JsonParse(resp.body).ok
IsFailure(resp) == IsNetworkFailure(resp) \/ IsHttpError(resp) \/ IsUnparseable(resp)
\* A success response carrying a well-formed Prediction Payload.
IsPayloadResponse(resp) ==
    /\ resp.kind = "http" /\ resp.ok
    /\ JsonParse(resp.body).ok
    /\ JsonParse(resp.body).v \in WellFormedPayloads
\* The detail string of an error body, when it has one.
HasDetail(resp) ==
    /\ IsHttpError(resp)
    /\ JsonParse(resp.body).ok
    /\ Get(JsonParse(resp.body).v, "detail").v.k = "str"
DetailOf(resp) == Get(JsonParse(resp.body).v, "detail").v.s

(***************************************************************************)
(* C1.  At most one POST /predict request is outstanding, and the run      *)
(* button stays disabled while a request is outstanding, under any         *)
(* interleaving of Select, Submit clicks and health-probe completion.      *)
(* Violated: validateAndDisplayFile re-enables the button while a request  *)
(* is in flight, and a second click then issues a second request.          *)
(***************************************************************************)
C1_AtMostOneOutstanding ==
    /\ Outstanding <= 1
    /\ Outstanding >= 1 => runDisabled

(***************************************************************************)
(* C2.  After a Submit() whose response is a success with a well-formed    *)
(* payload, the slot deserializes to the response body and the page has    *)
(* navigated to the result view exactly once in its lifetime.              *)
(* Violated: with two requests in flight (C1) both successes assign        *)
(* location.href.                                                          *)
(***************************************************************************)
C2_StoredAndNavigatedOnce ==
    (last.op = "settle" /\ IsPayloadResponse(last.resp)) =>
        /\ storage.present
        /\ JsonParse(storage.text).ok
        /\ JsonParse(storage.text).v = JsonParse(last.resp.body).v
        /\ href = ResultsHref
        /\ navCount = 1

(***************************************************************************)
(* C3.  For a non-success response with body {"detail": X} the message     *)
(* shown equals X; for a non-success response without a parseable detail   *)
(* the generic fallback failure message is shown.                          *)
(* Violated: the alert is the fixed prefix followed by error.message, a    *)
(* detail that contains "Failed to fetch" is replaced by the backend       *)
(* guidance, and a body that is not JSON shows the parser's message.       *)
(***************************************************************************)
C3_DetailShownVerbatim ==
    (last.op = "settle" /\ IsHttpError(last.resp)) =>
        IF HasDetail(last.resp) /\ DetailOf(last.resp) /= ""
        THEN alertMsg = DetailOf(last.resp)
        ELSE alertMsg \in {MsgPredictionFailed, MsgPrefix \o MsgPredictionFailed}

(***************************************************************************)
(* C4.  Every failed submission attempt (non-success status, network       *)
(* failure, unparseable body) ends retryable: overlay hidden, run button   *)
(* enabled, a Selected File still held; and a request is issued only by a  *)
(* click on the run button (no automatic retry).                           *)
(***************************************************************************)
C4_FailedAttemptRetryable ==
    /\ []((last.op = "settle" /\ IsFailure(last.resp)) =>
            /\ ~loadingActive
            /\ ~runDisabled
            /\ Validated(selectedFile)
            /\ alertMsg /= NoAlert)
    /\ [][(last'.op = "settle" /\ IsFailure(last'.resp)) =>
            /\ selectedFile' = selectedFile
            /\ Outstanding' = Outstanding - 1
            /\ issued' = issued]_vars
    /\ [][issued' /= issued => (last'.op = "click" /\ issued' = issued + 1)]_vars

C4_Witness ==
    /\ last.op = "settle"
    /\ IsNetworkFailure(last.resp)
    /\ ~loadingActive /\ ~runDisabled
    /\ selectedFile = last.file
    /\ Outstanding = 0

(***************************************************************************)
(* C5.  Every transport error of Submit() (fetch rejected, or a success    *)
(* response whose body cannot be parsed) is reported with the backend      *)
(* guidance naming the service location; an application error with a       *)
(* detail is reported with its detail and without that guidance.           *)
(* Violated: the guidance depends on error.message containing "Failed to   *)
(* fetch", which holds for neither a SyntaxError nor other browsers'       *)
(* network errors, and does hold for a detail with those words.            *)
(***************************************************************************)
C5_TransportErrorGuidance ==
    /\ (last.op = "settle"
        /\ (IsNetworkFailure(last.resp) \/ (last.resp.ok /\ IsUnparseable(last.resp))))
       => Includes(alertMsg, MsgBackend)
    /\ (last.op = "settle" /\ HasDetail(last.resp) /\ DetailOf(last.resp) /= "")
       => (Includes(alertMsg, DetailOf(last.resp)) /\ ~Includes(alertMsg, MsgBackend))

(***************************************************************************)
(* C6.  A click on the run button with no Selected File issues no request  *)
(* and changes nothing: button, overlay, storage slot, cell, display and   *)
(* location are as before; only the no-file notice is shown.               *)
(***************************************************************************)
C6_SubmitWithoutFile ==
    [][(last'.op = "click" /\ selectedFile = NoFile) =>
          /\ pending' = pending
          /\ reading' = reading
          /\ issued' = issued
          /\ runDisabled' = runDisabled
          /\ loadingActive' = loadingActive
          /\ storage' = storage
          /\ selectedFile' = selectedFile
          /\ fileNameDisplay' = fileNameDisplay
          /\ href' = href /\ navCount' = navCount
          /\ alertMsg' = MsgNoFile]_vars

C6_Witness ==
    /\ last.op = "click"
    /\ last.file = NoFile
    /\ alertMsg = MsgNoFile
    /\ pending = EmptyBag /\ issued = 0
    /\ ~runDisabled /\ ~loadingActive

(***************************************************************************)
(* C7.  A candidate file that fails validation (extension or size) is      *)
(* rejected with a notice, and the Selected File, the displayed name and   *)
(* the run button's enabled state are as before the call.                  *)
(***************************************************************************)
C7_RejectedSelectChangesNothing ==
    [][(IsSelectStep(last') /\ ~Validated(last'.file)) =>
          /\ selectedFile' = selectedFile
          /\ fileNameDisplay' = fileNameDisplay
          /\ runDisabled' = runDisabled
          /\ alertMsg' \in {MsgNotDicom, MsgTooLarge}]_vars

C7_Witness ==
    /\ IsSelectStep(last)
    /\ ~IsDicomName(last.file.name)
    /\ alertMsg = MsgNotDicom
    /\ Validated(selectedFile)
    /\ fileNameDisplay = SelectedText(selectedFile.name)
    /\ runDisabled /\ Outstanding = 1

(***************************************************************************)
(* C8.  Select() decides by size exactly at 52428800 bytes: a file with a  *)
(* valid extension and size <= 52428800 becomes the Selected File and      *)
(* enables the run button; a file with size > 52428800 is rejected         *)
(* whatever its extension.                                                 *)
(***************************************************************************)
C8_SizeCeiling ==
    IsSelectStep(last) =>
        /\ (IsDicomName(last.file.name) /\ last.file.size <= 52428800) =>
              /\ selectedFile = last.file
              /\ fileNameDisplay = SelectedText(last.file.name)
              /\ ~runDisabled
              /\ alertMsg = NoAlert
        /\ last.file.size > 52428800 =>
              /\ selectedFile /= last.file
              /\ alertMsg \in {MsgNotDicom, MsgTooLarge}

C8_Witness ==
    /\ IsSelectStep(last)
    /\ last.file.size = 52428800
    /\ selectedFile = last.file
    /\ ~runDisabled

(***************************************************************************)
(* C9.  The Selected File cell is empty or holds one file that passed the  *)
(* extension and the size check; every file uploaded by Submit() is such a *)
(* file; a successful Select() replaces the held file wholesale.           *)
(***************************************************************************)
C9_OnlyValidatedFiles ==
    /\ selectedFile = NoFile \/ (selectedFile \in Files /\ Validated(selectedFile))
    /\ \A f \in BagToSet(pending) : Validated(f)
    /\ \A a \in BagToSet(reading) : Validated(a.file)
    /\ last.op \in {"respond", "settle"} => Validated(last.file)
    /\ (last.op = "click" /\ last.file /= NoFile) => Validated(last.file)
    /\ (IsSelectStep(last) /\ alertMsg = NoAlert) =>
          (selectedFile = last.file /\ fileNameDisplay = SelectedText(last.file.name))

C9_Witness ==
    /\ IsSelectStep(last)
    /\ selectedFile = last.file
    /\ \E f \in BagToSet(pending) : f /= selectedFile

(***************************************************************************)
(* C10 as stated.  The payload is read exactly once: a second Load() of    *)
(* the result view with no new submission in between finds no payload.     *)
(* Violated: init() of the result page never removes the item.             *)
(***************************************************************************)
C10_ReadAtMostOnce == reads <= 1

\* The result page shows the one-source example: its two images and its
\* one card, and neither an alert nor a redirect.
ShowsExample ==
    /\ alertMsg = NoAlert
    /\ href = NoHref
    /\ images = [original |-> API_URL \o "/img/o.png",
                 processed |-> API_URL \o "/img/p.png"]
    /\ Len(cards) = 1
    /\ cards[1].key = "model_a"
    /\ cards[1].headline = "detected"
    /\ cards[1].badges = << "Epidural" >>
    /\ cards[1].rows =
          << [label |-> "Epidural", confidence |-> 81, isDetected |-> TRUE] >>
\* The result page took the failure path of a payload it cannot render.
ShowsLoadError ==
    /\ alertMsg = MsgLoadError
    /\ href = DetectionHref
    /\ cards = <<>>

(***************************************************************************)
(* C10 amended.  The Result Renderer never discards the payload: loading   *)
(* a page leaves the slot as it was, and every Load() of the result view   *)
(* while a payload is stored, the second one included, finds that payload  *)
(* and handles it again.  The one-source example is rendered on each       *)
(* Load(): its two images and its one card.  The stored body of a success  *)
(* response that has no predictions gets the load-error alert and the      *)
(* redirect on each Load().                                                *)
(***************************************************************************)
C10_PayloadPersistsAcrossLoads ==
    [][last'.op \in {"navigate", "visit"} =>
          /\ storage' = storage
          /\ (page' = "results" /\ storage.present) =>
                /\ reads' = reads + 1
                /\ JsonParse(storage.text).v = PayloadOne => ShowsExample'
                /\ storage.text = BodyInvalid => ShowsLoadError']_vars

C10_Witness ==
    /\ page = "results"
    /\ reads = 2
    /\ storage.present
    /\ JsonParse(storage.text).v = PayloadOne
    /\ Len(cards) = 1
    /\ href = NoHref

(***************************************************************************)
(* C11: when the result page loads and the slot "detectionResult" holds    *)
(* nothing, init() alerts that no results were found, assigns              *)
(* detection.html to location.href, and binds neither the two images nor   *)
(* any comparison card.  init() returns before its try block, so nothing   *)
(* can be thrown on this path: the whole outcome is the one below.         *)
(***************************************************************************)
C11_EmptySlotRedirects ==
    (page = "results" /\ ~storage.present) =>
        /\ alertMsg = MsgNoResults
        /\ href = DetectionHref
        /\ navCount = 1
        /\ images = NoImages
        /\ cards = <<>>

C11_Witness ==
    /\ page = "results"
    /\ ~storage.present
    /\ last.op = "visit"
    /\ href = DetectionHref

\* A parsed payload with the structure the renderer expects: an object whose
\* predictions is an object of sources with numeric confidences.
HasExpectedStructure(v) ==
    LET predictions == Get(v, "predictions").v IN
    /\ predictions.k = "obj"
    /\ \A i \in 1..Len(predictions.e) :
          LET c == Get(predictions.e[i].val, "confidences").v IN
          c.k = "obj" => \A j \in 1..Len(c.e) : c.e[j].val.k = "num"
\* The slot holds a text that is not JSON or not of the expected structure.
IsMalformed(item) ==
    /\ item.present
    /\ LET p == JsonParse(item.text) IN ~p.ok \/ ~HasExpectedStructure(p.v)

(***************************************************************************)
(* C12: when the result page loads and the slot holds a malformed payload  *)
(* (not JSON, or JSON without the predictions mapping or with non-numeric  *)
(* confidences), the user is alerted and sent back to detection.html as    *)
(* for an empty slot, and nothing was bound: the two images are unset and  *)
(* there is no comparison card.                                            *)
(***************************************************************************)
C12_MalformedLikeAbsent ==
    (page = "results" /\ IsMalformed(storage)) =>
        /\ alertMsg /= NoAlert
        /\ href = DetectionHref
        /\ images = NoImages
        /\ cards = <<>>

\* The four source keys in the order the specification declares them.
DeclaredSources == << "model_a", "model_b", "model_c", "ensemble" >>
\* The result page rendered the stored payload without taking a failure path.
Rendered == page = "results" /\ storage.present /\ alertMsg = NoAlert
\* The predictions mapping of the stored payload.
StoredPredictions == Get(JsonParse(storage.text).v, "predictions").v
HasEntry(predictions, key) == Get(predictions, key).v.k /= "undef"
CardKeys == [i \in 1..Len(cards) |-> cards[i].key]

(***************************************************************************)
(* C13: the cards of a rendered payload are, in this order, model A,       *)
(* model B, model C and the ensemble (those of them the payload's          *)
(* predictions mapping has), whatever the order of the keys in the         *)
(* payload.                                                                *)
(***************************************************************************)
C13_CardsInDeclaredOrder ==
    Rendered =>
        LET Present(key) == HasEntry(StoredPredictions, key)
        IN CardKeys = SelectSeq(DeclaredSources, Present)

(***************************************************************************)
(* C14: the sources that get a card are exactly those of the four fixed    *)
(* keys (the ensemble included) that have an entry in predictions, one     *)
(* card each; an absent source is skipped and the others still render.     *)
(***************************************************************************)
C14_CardPerPresentSource ==
    Rendered =>
        /\ { cards[i].key : i \in 1..Len(cards) } =
               { DeclaredSources[j] : j \in { n \in 1..Len(DeclaredSources) :
                                               HasEntry(StoredPredictions, DeclaredSources[n]) } }
        /\ \A i, j \in 1..Len(cards) : cards[i].key = cards[j].key => i = j

\* The Source Result the stored payload has for a source key, and its fields.
StoredSource(key) == Get(StoredPredictions, key).v
StoredConfidences(key) ==
    LET c == Get(StoredSource(key), "confidences").v IN
    IF c.k = "obj" THEN c.e ELSE <<>>
StoredDetected(key) ==
    LET d == Get(StoredSource(key), "detected").v IN
    IF d.k = "arr" THEN d.a ELSE <<>>
\* The row of a card that shows a label.
RowOf(card, label) == CHOOSE i \in 1..Len(card.rows) : card.rows[i].label = label

(***************************************************************************)
(* C15: in every card the score rows are in descending order of            *)
(* confidence, labels of equal confidence are in the order they have in    *)
(* the payload's confidences mapping, and the rows are the entries of the  *)
(* mapping, each exactly once.  The order of the mapping is the property   *)
(* order of the parsed object: that of the text for the subtype names.     *)
(***************************************************************************)
C15_RowsSortedStable ==
    Rendered =>
        \A c \in 1..Len(cards) :
            LET rows == cards[c].rows
                es == StoredConfidences(cards[c].key)
            IN /\ \A i, j \in 1..Len(rows) :
                      i < j => rows[i].confidence >= rows[j].confidence
               /\ Len(rows) = Len(es)
               /\ \A i \in 1..Len(es) :
                      /\ \E r \in 1..Len(rows) : /\ rows[r].label = es[i].key
                                                 /\ rows[r].confidence = es[i].val.n
                      /\ \A r, q \in 1..Len(rows) :
                            (rows[r].label = es[i].key /\ rows[q].label = es[i].key)
                                => r = q
               /\ \A i, j \in 1..Len(es) :
                      (i < j /\ es[i].val.n = es[j].val.n)
                          => RowOf(cards[c], es[i].key) < RowOf(cards[c], es[j].key)

\* A rendered mapping whose highest score came last and whose two other
\* labels tie: the row order is third, first, second.
C15_Witness ==
    /\ Rendered
    /\ \E c \in 1..Len(cards) :
          LET rows == cards[c].rows
              es == StoredConfidences(cards[c].key)
          IN /\ Len(es) = 3
             /\ es[1].val.n = es[2].val.n
             /\ es[3].val.n > es[1].val.n
             /\ [i \in 1..3 |-> rows[i].label] = <<es[3].key, es[1].key, es[2].key>>

\* The score the stored payload gives a label of a source.
StoredScore(key, label) ==
    LET es == StoredConfidences(key) IN
    es[CHOOSE i \in 1..Len(es) : es[i].key = label].val.n
IsFlagged(key, label) ==
    \E i \in 1..Len(StoredDetected(key)) : StoredDetected(key)[i] = JStr(label)

(***************************************************************************)
(* C16: a score row is marked as exceeding the threshold exactly when the  *)
(* payload's confidence for its label is 50 or more (50 itself is marked), *)
(* whether or not the label is in the source's detected sequence.          *)
(***************************************************************************)
C16_MarkerIffAtLeastFifty ==
    Rendered =>
        \A c \in 1..Len(cards) : \A r \in 1..Len(cards[c].rows) :
            LET row == cards[c].rows[r] IN
            row.isDetected <=> StoredScore(cards[c].key, row.label) >= 50

\* One card with a row of exactly 50 that is marked although its label is
\* not in detected, a row of 49 that is not, and a row of 51 that is.
C16_Witness ==
    /\ Rendered
    /\ \E c \in 1..Len(cards) :
          /\ \E r \in 1..Len(cards[c].rows) :
                /\ cards[c].rows[r].confidence = 50
                /\ cards[c].rows[r].isDetected
                /\ ~IsFlagged(cards[c].key, cards[c].rows[r].label)
          /\ \E r \in 1..Len(cards[c].rows) :
                /\ cards[c].rows[r].confidence = 49
                /\ ~cards[c].rows[r].isDetected
                /\ IsFlagged(cards[c].key, cards[c].rows[r].label)
          /\ \E r \in 1..Len(cards[c].rows) :
                /\ cards[c].rows[r].confidence = 51
                /\ cards[c].rows[r].isDetected

(***************************************************************************)
(* C17: a card's headline says a hemorrhage was detected exactly when the  *)
(* source's detected sequence is non-empty (a missing detected field is    *)
(* empty); the confidences play no part, so a card can say nothing was     *)
(* detected while one of its rows is marked, and say detected while none   *)
(* is.                                                                     *)
(***************************************************************************)
C17_HeadlineFromDetected ==
    Rendered =>
        \A c \in 1..Len(cards) :
            /\ cards[c].headline \in {"detected", "no-detection"}
            /\ cards[c].headline = "detected" <=> Len(StoredDetected(cards[c].key)) > 0
            /\ Len(cards[c].badges) = Len(StoredDetected(cards[c].key))

\* Two cards that disagree with their own rows: the first reports a
\* detection with no row marked, the second reports none (its detected is
\* missing) with a row marked.
C17_Witness ==
    /\ Rendered
    /\ \E c, d \in 1..Len(cards) :
          /\ cards[c].headline = "detected"
          /\ \A r \in 1..Len(cards[c].rows) : ~cards[c].rows[r].isDetected
          /\ cards[d].headline = "no-detection"
          /\ Get(StoredSource(cards[d].key), "detected").v.k = "undef"
          /\ \E r \in 1..Len(cards[d].rows) : cards[d].rows[r].isDetected

\* The result page was reached by the navigation runDetection started.
HandedOver == page = "results" /\ last.op = "navigate"

\* What a card shows of its source: the key, the headline and the labels
\* of the marked rows.
CardSummary(card) ==
    [key |-> card.key,
     headline |-> card.headline,
     marked |-> { card.rows[r].label :
                    r \in { n \in 1..Len(card.rows) : card.rows[n].isDetected } }]
\* What the stored payload determines for the source of a key: the
\* headline by its detected sequence, the marks by its confidences.
SourceSummary(key) ==
    [key |-> key,
     headline |-> IF Len(StoredDetected(key)) > 0 THEN "detected" ELSE "no-detection",
     marked |-> { StoredConfidences(key)[n].key :
                    n \in { m \in 1..Len(StoredConfidences(key)) :
                              StoredConfidences(key)[m].val.n >= 50 } }]
\* The declared sources the stored payload has an entry for, in order.
StoredSources ==
    LET Present(key) == HasEntry(StoredPredictions, key)
    IN SelectSeq(DeclaredSources, Present)

(***************************************************************************)
(* C18: when the result page is reached by the navigation a successful     *)
(* submission started, the payload init() parses from the slot is the body *)
(* of the response that started the navigation, and for a well-formed      *)
(* payload the images, cards, headlines and marked rows are the ones that  *)
(* payload determines: one card for each of the four declared sources it   *)
(* has, with the headline by the source's detected sequence and the marks  *)
(* on the labels whose confidence is at least 50.  For the one-source      *)
(* example (model_a, detected Epidural, Epidural 81) this is one card with *)
(* the headline "detected" and one marked row.                             *)
(* Violated: a payload with an ensemble entry gets no ensemble card.       *)
(***************************************************************************)
C18_HandoffAcrossPages ==
    HandedOver =>
        /\ handoff /= NoBody
        /\ JsonParse(handoff).ok
        /\ storage.present
        /\ JsonParse(storage.text) = JsonParse(handoff)
        /\ JsonParse(handoff).v \in WellFormedPayloads =>
              /\ alertMsg = NoAlert /\ href = NoHref
              /\ images = [original |-> API_URL \o "/img/o.png",
                           processed |-> API_URL \o "/img/p.png"]
              /\ [i \in 1..Len(cards) |-> CardSummary(cards[i])] =
                    [i \in 1..Len(StoredSources) |-> SourceSummary(StoredSources[i])]
        /\ handoff = Stringify(PayloadOne) => ShowsExample

(***************************************************************************)
(* C19: whatever GET /health settles with (model loaded, model not         *)
(* loaded, a non-success status, no answer, an unreadable body) and        *)
(* whenever each of its two awaits settles, the step leaves the selected   *)
(* file, its display, the run button, the loading overlay, the requests in *)
(* flight and the storage slot as they were.                               *)
(***************************************************************************)
C19_HealthChangesNothing ==
    [][last'.op \in HealthOutcomes =>
          /\ selectedFile' = selectedFile
          /\ fileNameDisplay' = fileNameDisplay
          /\ runDisabled' = runDisabled
          /\ loadingActive' = loadingActive
          /\ pending' = pending
          /\ reading' = reading
          /\ storage' = storage
          /\ href' = href]_vars

\* The probe finds the backend unreachable after a file was selected: the
\* button is still enabled and the file still selected.
C19_Witness ==
    /\ last.op = "health_unreachable"
    /\ selectedFile /= NoFile
    /\ ~runDisabled
    /\ ~loadingActive

(***************************************************************************)
(* C20: selectedFile is empty when the page has loaded and changes only    *)
(* when a select step accepts a file (to that file) or the page is loaded  *)
(* again: a click, a settled request, a rejected or empty select and the   *)
(* health probe leave it as it was, and the request a click issues uploads *)
(* the file that is selected at the click.                                 *)
(***************************************************************************)
C20_SelectedFileFrame ==
    /\ selectedFile = NoFile
    /\ [][/\ last'.op \in {"navigate", "visit"} => selectedFile' = NoFile
          /\ last'.op \in {"click", "respond", "settle"} \cup HealthOutcomes
                => selectedFile' = selectedFile
          /\ last'.op = "select" =>
                selectedFile' = IF Validated(last'.file) THEN last'.file
                                ELSE selectedFile
          /\ (last'.op = "click" /\ issued' = issued + 1) =>
                /\ selectedFile /= NoFile
                /\ pending' = pending (+) SetToBag({selectedFile})]_vars

\* The second request of a run is in flight, for the file selected at its
\* click; the first has settled.
C20_Witness ==
    /\ last.op = "click"
    /\ issued = 2
    /\ selectedFile /= NoFile
    /\ pending = SetToBag({selectedFile})

\* A submission has succeeded on this document and its navigation to the
\* result page has not committed yet.
AwaitingNavigation == page = "detection" /\ href = ResultsHref

(***************************************************************************)
(* C21: from the success of a submission until the navigation replaces     *)
(* the detection page, the loading overlay is active and the run button    *)
(* is disabled, whatever happens on the page in between.                   *)
(***************************************************************************)
C21_BusyUntilNavigation ==
    AwaitingNavigation => (loadingActive /\ runDisabled)

(***************************************************************************)
(* C22: a submission attempt that fails (a click with no file selected, a  *)
(* non-success status, a network failure, a body that is not JSON) leaves  *)
(* the storage slot as it was, a stale payload included, and assigns no    *)
(* navigation; the slot changes only when a success response settles, and  *)
(* then it holds that response's payload.                                  *)
(***************************************************************************)
C22_FailureLeavesSlot ==
    [][/\ ((last'.op = "settle" /\ IsFailure(last'.resp))
             \/ (last'.op = "click" /\ selectedFile = NoFile)) =>
              /\ storage' = storage
              /\ href' = href
              /\ navCount' = navCount
              /\ page' = page
       /\ storage' /= storage =>
              /\ last'.op = "settle"
              /\ last'.resp.kind = "http" /\ last'.resp.ok
              /\ ~IsFailure(last'.resp)
              /\ storage'.present
              /\ JsonParse(storage'.text) = JsonParse(last'.resp.body)]_vars

\* A failed attempt on a later visit of the detection page: the payload of
\* the earlier success is still in the slot and no navigation is pending.
C22_Witness ==
    /\ last.op = "settle"
    /\ IsHttpError(last.resp)
    /\ storage.present
    /\ href = NoHref
    /\ page = "detection"

\* The user has set no preference on this document: nothing was stored when
\* it initialised and the toggle was not clicked since.
NoManualPreference == ~themeHist.initStored /\ ~themeHist.toggled

(***************************************************************************)
(* C23: when the system colour scheme changes on a page whose theme        *)
(* manager is initialised, the applied theme follows the system (dark or   *)
(* light) if the page initialised with no stored theme and the toggle was  *)
(* not clicked; otherwise the applied theme stays as it was.               *)
(***************************************************************************)
C23_FollowsSystemUnlessSet ==
    [][(themeHist'.op = "system" /\ theme.ready) =>
          IF NoManualPreference
          THEN theme'.dataTheme = Assigned(IF theme'.systemDark THEN "dark" ELSE "light")
          ELSE theme'.dataTheme = theme.dataTheme]_vars

=============================================================================
